---- MODULE Spec2Model ----
(***************************************************************************)
(* Content fetch-render-cache pipeline of www.pixlcore.com (src/lib/api.js) *)
(* as a state machine: startup, preloadBlog over async.eachLimit, the      *)
(* request handlers, get_cached_html / get_cached_url and the LRU cache.   *)
(***************************************************************************)
EXTENDS Integers, Sequences, FiniteSets, TLC

\* ------------------------------------------------------------------ bounds
\* Number of slugs in config.articles (config.json is not part of src/).
NumArticles == 3
\* The limit passed to async.eachLimit (8 at api.js:60), scaled down together
\* with NumArticles so that slugs have to wait for a free slot.
PreloadLimit == 2
\* maxItems of the LRU (5000 at api.js:40), scaled down.
maxItems == 3
\* maxBytes of the LRU (50 MiB at api.js:41), scaled down.
maxBytes == 5
\* maxAge of the LRU in clock ticks (86400 s at api.js:39), scaled down.
maxAge == 2
\* Number of changes the upstream content may undergo in a run.
MaxEdits == 1
\* Largest number of whitespace characters after an admonition marker.
MaxSpace == 1

\* ------------------------------------------------------------- configuration
SlugNames == <<"a1", "a2", "a3", "a4", "a5", "a6">>

\* config.articles: the ordered slug list, most recent first.
configArticles == SubSeq(SlugNames, 1, NumArticles)

Slugs == {configArticles[i] : i \in 1..NumArticles}

\* A slug or page id that is requested but is not configured.
Unknown == "nope"

Undefined == "undefined"

\* config.pages: page id -> repository coordinate; this one names no file.
PageIds == {"pixl-server"}

configPages ==
    [id \in PageIds |->
        [org |-> "jhuckaby", repo |-> id, branch |-> "master", file |-> Undefined]]

\* The paths requested under /doc/<id>/.
DocPaths == {"README.md"}

\* 'https://raw.githubusercontent.com/pixlcore/blog/main/' + slug + '.md'
BlogUrl(slug) == <<"pixlcore", "blog", "main", slug>>

\* 'https://raw.githubusercontent.com/' + page.org + '/' + page.repo + '/' +
\* page.branch + '/' + page.file
PageUrl(page) == <<page.org, page.repo, page.branch, page.file>>

NoUrl == <<"", "", "", "">>

Urls == {BlogUrl(s) : s \in Slugs}
            \cup {PageUrl([configPages[id] EXCEPT !.file = f]) : id \in PageIds, f \in DocPaths}

\* Faulty variant of MatchesBlog: no URL is taken for a blog article.
MatchesBlogNever(url) == FALSE

\* url.match(/\/pixlcore\/blog\/main\/(.+)\.md$/)
MatchesBlog(url) == url[1] = "pixlcore" /\ url[2] = "blog" /\ url[3] = "main"

\* ------------------------------------------------------------------ content
\* The Markdown documents the upstream may serve.  1 and 2 are two revisions
\* of a well-formed article, 3 lacks <!-- Title -->, 4 lacks <!-- Date -->,
\* 5 lacks <!-- Tags -->, 6 has no word token, 7 alone exceeds maxBytes.
\* Their content is Source(id), below.
DocIds == 1..7

Text(id) == [kind |-> "md", id |-> id,
             bytes |-> IF id = 7 THEN maxBytes + 1 ELSE IF id = 2 THEN 2 ELSE 1]

Texts == {Text(id) : id \in DocIds}

\* marked.parse(text, ...)
Render(text) == [kind |-> "html", id |-> text.id, bytes |-> text.bytes + 1]

\* ------------------------------------------------------ blockquote renderer
\* The html handed to the blockquote renderer is a sequence of tokens: the
\* tags "<p>" and "</p>", the marker parts "[!" and "]", the whitespace
\* characters " " and "\n", and words (runs of \w characters).
Tags == {"<p>", "</p>", "[!", "]"}

Spaces == {" ", "\n"}

\* The words written in admonition markers, in several letter cases.
MarkerWords == {"NOTE", "Tip", "important", "wARNING", "CAUTION", "FOO"}

IsWord(tok) == tok \notin Tags \cup Spaces

\* String.prototype.toLowerCase
ToLowerCase(w) ==
    CASE w \in {"NOTE", "Note"} -> "note"
      [] w = "Tip" -> "tip"
      [] w = "Important" -> "important"
      [] w \in {"wARNING", "WARNING", "Warning"} -> "warning"
      [] w \in {"CAUTION", "Caution"} -> "caution"
      [] w \in {"FOO", "Foo"} -> "foo"
      [] w \in {"Title", "TITLE"} -> "title"
      [] w = "Summary" -> "summary"
      [] w = "Author" -> "author"
      [] w = "Date" -> "date"
      [] w \in {"Tags", "tAGS"} -> "tags"
      [] w = "Slug" -> "slug"
      [] w = "Words" -> "words"
      [] w = "Series" -> "series"
      [] OTHER -> w

\* Tools.ucfirst: the first character in upper case, the rest as it is.
Ucfirst(w) ==
    CASE w = "note" -> "Note"
      [] w = "tip" -> "Tip"
      [] w = "important" -> "Important"
      [] w = "warning" -> "Warning"
      [] w = "caution" -> "Caution"
      [] w = "foo" -> "Foo"
      [] w = "wARNING" -> "WARNING"
      [] OTHER -> w

\* var icons = { note: ..., tip: ..., important: ..., warning: ..., caution: ... };
\* icons[type]
Icons(type) ==
    CASE type = "note" -> "information-outline"
      [] type = "tip" -> "lightbulb-on-outline"
      [] type = "important" -> "alert-decagram"
      [] type = "warning" -> "alert-circle"
      [] type = "caution" -> "fire-alert"
      [] OTHER -> Undefined

RECURSIVE TrimLeft(_)
TrimLeft(h) == IF h # <<>> /\ Head(h) \in Spaces THEN TrimLeft(Tail(h)) ELSE h

RECURSIVE TrimRight(_)
TrimRight(h) ==
    IF h # <<>> /\ h[Len(h)] \in Spaces THEN TrimRight(SubSeq(h, 1, Len(h) - 1)) ELSE h

\* html.trim()
Trim(h) == TrimLeft(TrimRight(h))

\* /^<p>([\s\S]+)<\/p>$/ matches h.
MatchesP(h) == Len(h) >= 3 /\ h[1] = "<p>" /\ h[Len(h)] = "</p>"

\* .replace(/^<p>([\s\S]+)<\/p>$/, '$1')
ReplaceP(h) == IF MatchesP(h) THEN SubSeq(h, 2, Len(h) - 1) ELSE h

\* /^\[\!(\w+)\]\s*/ matches h.
MatchesMarker(h) == Len(h) >= 3 /\ h[1] = "[!" /\ IsWord(h[2]) /\ h[3] = "]"

\* html.replace(/^\[\!(\w+)\]\s*/, '')
ReplaceMarker(h) == IF MatchesMarker(h) THEN TrimLeft(SubSeq(h, 4, Len(h))) ELSE h

NoOut == [kind |-> "none", type |-> "", title |-> "", icon |-> "", body |-> <<>>]

\* `<div class="blocknote ${type}">...${icon}...${title}...${html}</div>`
Blocknote(type, title, icon, html) ==
    [kind |-> "blocknote", type |-> type, title |-> title, icon |-> icon, body |-> html]

\* `<blockquote>${html}</blockquote>`
Blockquote(html) ==
    [kind |-> "blockquote", type |-> "", title |-> "", icon |-> "", body |-> html]

\* Faulty variant of AfterMatch: the match leaves RegExp.$1 as it was.
AfterMatchStale(h, re) == re

\* RegExp.$1 after html.match(/^\[\!(\w+)\]\s*/) on h, re being its value
\* before: a successful match sets it to the first group.
AfterMatch(h, re) == IF MatchesMarker(h) THEN <<h[2]>> ELSE re

\* RegExp.$1 after .replace(/^<p>([\s\S]+)<\/p>$/, '$1') on h.
AfterReplaceP(h, re) == IF MatchesP(h) THEN ReplaceP(h) ELSE re

\* RegExp.$1.toLowerCase(): the group is one word when the marker matched.
TypeOf(re) == IF Len(re) = 1 THEN ToLowerCase(re[1]) ELSE ""

\* blockquote(html) with RegExp.$1 = re on entry: what it returns and the
\* RegExp.$1 it leaves.
blockquote(html, re) ==
    LET h == ReplaceP(Trim(html))
        re1 == AfterReplaceP(Trim(html), re)
        re2 == AfterMatch(h, re1)
    IN  IF MatchesMarker(h)
        THEN LET type == TypeOf(re2)
                 title == Ucfirst(type)
                 icon == Icons(type)
             IN  [out |-> Blocknote(type, title, icon, ReplaceMarker(h)),
                  re |-> AfterMatch(h, re2)]
        ELSE [out |-> Blockquote(h), re |-> re2]

\* The blockquote contents marked.parse hands to the renderer: with or
\* without a wrapping paragraph, with a marker, a broken marker or none, some
\* whitespace, and a body of none, one or two paragraphs.
Markers == {<<>>, <<"[!", "]">>} \cup {<<"[!", w, "]">> : w \in MarkerWords}

Gaps == {[i \in 1..n |-> " "] : n \in 0..MaxSpace}

Bodies == {<<>>, <<"Be">>, <<"Be", "</p>", "\n", "<p>", "careful">>}

Quote(wrap, marker, gap, body) ==
    IF wrap THEN <<"<p>">> \o marker \o gap \o body \o <<"</p>", "\n">>
    ELSE marker \o gap \o body

Quotes ==
    {Quote(wrap, marker, gap, body) :
        wrap \in BOOLEAN, marker \in Markers, gap \in Gaps, body \in Bodies}

\* The contents whose repeated rendering is compared.
Probes ==
    {Quote(TRUE, <<"[!", "wARNING", "]">>, <<" ">>, <<"Be">>),
     Quote(FALSE, <<"[!", "Tip", "]">>, <<>>, <<"Be">>),
     Quote(TRUE, <<>>, <<>>, <<"Be">>),
     Quote(FALSE, <<"[!", "]">>, <<>>, <<"Be">>)}

\* ------------------------------------------------------ front-matter parser
\* A fetched text is a sequence of tokens: the comment delimiters "<!--" and
\* "-->", ":", ",", "~~~" for a code fence, the whitespace characters " " and
\* "\n", dates, and words (runs of \w characters).  The texts contain no
\* link syntax, no ">" outside "-->" and no comment with an empty value.
Punct == {"<!--", "-->", ":", ",", "~~~"}

Dates == {"2024/01/01", "2023/12/31"}

IsWordToken(tok) == tok \notin Punct \cup Spaces \cup Dates

\* JavaScript values: a string is the sequence of its tokens.
Str(toks) == <<"string">> \o toks

Num(n) == <<"number", ToString(n)>>

NaN == <<"number", "NaN">>

Undef == <<"undefined">>

\* The first index from i on whose token is not whitespace.
SkipSpaces(t, i) ==
    IF \E j \in i..Len(t) : t[j] \notin Spaces
    THEN CHOOSE j \in i..Len(t) :
            t[j] \notin Spaces /\ \A q \in i..(j - 1) : t[q] \in Spaces
    ELSE Len(t) + 1

\* Where (.+?) may end when it starts at vs: no line break inside, and
\* \s*--> follows.
ValueEnds(t, vs) ==
    {e \in vs..Len(t) :
        /\ \A q \in vs..e : t[q] # "\n"
        /\ LET m == SkipSpaces(t, e + 1) IN m <= Len(t) /\ t[m] = "-->"}

Largest(S) == CHOOSE x \in S : \A y \in S : y <= x

Smallest(S) == CHOOSE x \in S : \A y \in S : x <= y

NoMatch == [ok |-> FALSE, key |-> "", value |-> <<>>, next |-> 0]

\* /<\!--\s*(\w+):\s*(.+?)\s*-->/ tried at index i of t: \s* takes as much
\* whitespace as leaves a match, (.+?) as little as possible.
MatchComment(t, i) ==
    IF t[i] # "<!--" THEN NoMatch
    ELSE LET j == SkipSpaces(t, i + 1) IN
         IF j + 1 > Len(t) THEN NoMatch
         ELSE IF ~IsWordToken(t[j]) \/ t[j + 1] # ":" THEN NoMatch
         ELSE LET k == SkipSpaces(t, j + 2)
                  starts == {vs \in (j + 2)..k : vs <= Len(t) /\ ValueEnds(t, vs) # {}}
              IN  IF starts = {} THEN NoMatch
                  ELSE LET vs == Largest(starts)
                           e == Smallest(ValueEnds(t, vs))
                       IN  [ok |-> TRUE, key |-> t[j], value |-> SubSeq(t, vs, e),
                            next |-> SkipSpaces(t, e + 1) + 1]

\* The matches of the global regular expression from index i on, in order.
RECURSIVE Metadata(_, _)
Metadata(t, i) ==
    IF i > Len(t) THEN <<>>
    ELSE LET m == MatchComment(t, i) IN
         IF m.ok THEN <<m>> \o Metadata(t, m.next) ELSE Metadata(t, i + 1)

\* article[ k ] = v
Put(a, k, v) == [x \in DOMAIN a \cup {k} |-> IF x = k THEN v ELSE a[x]]

\* article.k: undefined when the property is absent.
Field(a, k) == IF k \in DOMAIN a THEN a[k] ELSE Undef

\* Faulty variant of Assign: a key that is already set keeps its value.
RECURSIVE AssignFirst(_, _)
AssignFirst(a, ms) ==
    IF ms = <<>> THEN a
    ELSE LET k == ToLowerCase(Head(ms).key) IN
         AssignFirst(IF k \in DOMAIN a THEN a ELSE Put(a, k, Str(Head(ms).value)),
                     Tail(ms))

\* The replace callback on every match: article[ key.toLowerCase() ] = value.
RECURSIVE Assign(_, _)
Assign(a, ms) ==
    IF ms = <<>> THEN a
    ELSE Assign(Put(a, ToLowerCase(Head(ms).key), Str(Head(ms).value)), Tail(ms))

\* The first replace of text, of /<.+?>/g: a comment is removed, from its
\* opening token to the first closing token of its line.
RECURSIVE StripTags(_)
StripTags(t) ==
    IF t = <<>> THEN <<>>
    ELSE LET ends == {e \in 2..Len(t) :
                        t[e] = "-->" /\ \A q \in 1..e : t[q] # "\n"} IN
         IF Head(t) = "<!--" /\ ends # {}
         THEN StripTags(SubSeq(t, Smallest(ends) + 1, Len(t)))
         ELSE <<Head(t)>> \o StripTags(Tail(t))

\* The second replace of text, of fence [\S\s]+? fence: a fenced block is
\* removed with its fences.
RECURSIVE StripFences(_)
StripFences(t) ==
    IF t = <<>> THEN <<>>
    ELSE LET ends == {e \in 3..Len(t) : t[e] = "~~~"} IN
         IF Head(t) = "~~~" /\ ends # {}
         THEN StripFences(SubSeq(t, Smallest(ends) + 1, Len(t)))
         ELSE <<Head(t)>> \o StripFences(Tail(t))

\* .match(/\w+/g).length: the number of words; 0 stands for the null that
\* match() returns when there is none.
WordCount(t) == Cardinality({i \in 1..Len(t) : IsWordToken(t[i])})

\* <!-- Key: Value --> on a line of its own.
Comment(key, value) == <<"<!--", " ", key, ":", " ">> \o value \o <<" ", "-->", "\n">>

Body(n) == [i \in 1..n |-> "word"]

\* The documents whose parsing is examined: 20 has the five comments on one
\* line, 21 varies the whitespace, 22 has two titles, 23 a Slug comment,
\* 24 a Words comment, 25 upper-case keys, 26 comments after the text and in
\* a fenced block, 27 values of several words, 28 a comment of another key.
ParseIds == 20..28

Header == Comment("Summary", <<"Summary">>) \o Comment("Author", <<"jhuckaby">>)

Dated == Comment("Date", <<"2024/01/01">>) \o Comment("Tags", <<"A", ",", " ", "B">>)

\* The content of document id.
Source(id) ==
    CASE id \in DocIds ->
            (IF id = 3 THEN <<>> ELSE Comment("Title", <<"Title">>))
            \o Header
            \o (IF id = 4 THEN <<>> ELSE Comment("Date", <<"2024/01/01">>))
            \o (IF id = 5 THEN <<>> ELSE Comment("Tags", <<"A", ",", " ", "B">>))
            \o Body(IF id = 6 THEN 0 ELSE 10 + id)
      [] id = 20 ->
            <<"<!--", " ", "Title", ":", " ", "X", " ", "-->", " ",
              "<!--", " ", "Summary", ":", " ", "Y", " ", "-->", " ",
              "<!--", " ", "Author", ":", " ", "a", " ", "-->", " ",
              "<!--", " ", "Date", ":", " ", "2024/01/01", " ", "-->", " ",
              "<!--", " ", "Tags", ":", " ", "A", ",", " ", "B", " ", "-->", "\n">>
            \o Body(3)
      [] id = 21 ->
            <<"<!--", "Title", ":", "X", "-->", "\n",
              "<!--", " ", " ", "Tags", ":", " ", " ", "A", ",", "B", ",", " ", " ", "C",
              " ", " ", "-->", "\n",
              "<!--", "\n", "Date", ":", "\n", "2023/12/31", "\n", "-->", "\n">>
            \o Header \o Body(2)
      [] id = 22 ->
            Comment("Title", <<"Draft">>) \o Header \o Dated
            \o Comment("Title", <<"Final">>) \o Body(2)
      [] id = 23 ->
            Comment("Title", <<"Title">>) \o Comment("Slug", <<"other">>)
            \o Header \o Dated \o Body(2)
      [] id = 24 ->
            Comment("Title", <<"Title">>) \o Comment("Words", <<"many">>)
            \o Header \o Dated \o Body(2)
      [] id = 25 ->
            Comment("TITLE", <<"Title">>) \o Header
            \o Comment("Date", <<"2024/01/01">>) \o Comment("tAGS", <<"A">>)
            \o Body(2)
      [] id = 26 ->
            Comment("Title", <<"Title">>) \o Body(2)
            \o <<"~~~", "\n">> \o Comment("Author", <<"jhuckaby">>)
            \o Body(4) \o <<"\n", "~~~", "\n">>
            \o Comment("Summary", <<"Summary">>) \o Dated
      [] id = 27 ->
            Comment("Title", <<"My", " ", "first", " ", "post">>) \o Header
            \o Comment("Date", <<"yesterday">>)
            \o Comment("Tags", <<"Web", " ", "Dev", ",", " ", "Linux">>)
            \o Body(2)
      [] id = 28 ->
            Comment("Title", <<"Title">>) \o Comment("Series", <<"Part", " ", "2">>)
            \o Header \o Dated \o Body(2)
      [] OTHER -> <<>>

\* text.replace(...).replace(...).replace(...).match(/\w+/g).length
WordMatch(text) == WordCount(StripFences(StripTags(Source(text.id))))

\* The article after the replace callback ran on every comment of the text.
FrontMatter(slug, text) ==
    Assign([slug |-> Str(<<slug>>), words |-> Num(WordMatch(text))],
           Metadata(Source(text.id), 1))

\* Math.floor( (new Date(article.date + ' 00:00:00')).getTime() / 1000 )
ParseDate(v) ==
    IF Len(v) = 2 /\ v[1] = "string" /\ v[2] \in Dates
    THEN <<"number", "epoch", v[2], "00:00:00">>
    ELSE NaN

\* The pieces of toks between the matches of /\,\s*/, cur being the piece
\* that is open.
RECURSIVE Pieces(_, _)
Pieces(toks, cur) ==
    IF toks = <<>> THEN <<cur>>
    ELSE IF Head(toks) = "," THEN <<cur>> \o Pieces(TrimLeft(Tail(toks)), <<>>)
    ELSE Pieces(Tail(toks), Append(cur, Head(toks)))

\* article.tags.split(/\,\s*/)
SplitTags(v) == <<"array">> \o Pieces(Tail(v), <<>>)

\* The callback of preloadBlog throws a TypeError: match() gave null, or
\* article.tags is undefined.
ParseThrows(text) ==
    WordMatch(text) = 0 \/ Field(FrontMatter("", text), "tags") = Undef

\* The article object built from a fetched text.
Article(slug, text) ==
    LET a1 == FrontMatter(slug, text)
        a2 == Put(a1, "date", ParseDate(Field(a1, "date")))
    IN  Put(a2, "tags", SplitTags(Field(a2, "tags")))

NoArticle == [slug |-> Undef, words |-> Num(0), date |-> NaN, tags |-> <<"array">>]

\* ---------------------------------------------------------------- LRU cache
\* The cache is a sequence of items, most recently used first.  An item
\* carries the time it has left to live, in clock ticks: set() stamps maxAge,
\* a tick takes one off, and at 0 the item has expired.
NoValue == [kind |-> "none", id |-> 0, bytes |-> 0]

RawKey(url) == <<"", url>>

\* Faulty variant of CacheId: the rendered HTML shares the key of the raw text.
CacheIdShared(url) == RawKey(url)

\* var cache_id = 'MARKED:' + url;
CacheId(url) == <<"MARKED:", url>>

Expired(item) == item.ttl = 0

IndexOf(c, key) ==
    IF \E i \in 1..Len(c) : c[i].key = key
    THEN CHOOSE i \in 1..Len(c) : c[i].key = key
    ELSE 0

\* has(key): an unexpired item exists.
Has(c, key) == \E i \in 1..Len(c) : c[i].key = key /\ ~Expired(c[i])

Without(c, i) == [j \in 1..(Len(c) - 1) |-> IF j < i THEN c[j] ELSE c[j + 1]]

Remove(c, key) == IF IndexOf(c, key) = 0 THEN c ELSE Without(c, IndexOf(c, key))

Value(c, key) == IF IndexOf(c, key) = 0 THEN NoValue ELSE c[IndexOf(c, key)].value

\* get(key): the value, and the item moves to the front.
Touch(c, key) ==
    IF Has(c, key) THEN <<c[IndexOf(c, key)]>> \o Remove(c, key) ELSE c

Count(c) == Len(c)

RECURSIVE Bytes(_)
Bytes(c) == IF c = <<>> THEN 0 ELSE Head(c).value.bytes + Bytes(Tail(c))

OverBudget(c) == Count(c) > maxItems \/ Bytes(c) > maxBytes

\* Faulty variant of Victim: the least recently used item, expired or not.
VictimOldest(c) == Len(c)

\* The item to evict next: the least recently used expired one, else the
\* least recently used one; never the item just set (position 1).
Victim(c) ==
    IF \E i \in 2..Len(c) : Expired(c[i])
    THEN CHOOSE i \in 2..Len(c) :
            Expired(c[i]) /\ \A j \in (i + 1)..Len(c) : ~Expired(c[j])
    ELSE Len(c)

\* Faulty variant of Evict: a single item is evicted, whatever remains.
EvictOnce(c) == IF OverBudget(c) /\ Len(c) > 1 THEN Without(c, Victim(c)) ELSE c

RECURSIVE Evict(_)
Evict(c) == IF OverBudget(c) /\ Len(c) > 1 THEN Evict(Without(c, Victim(c))) ELSE c

\* set(key, value)
Set(c, key, value) ==
    Evict(<<[key |-> key, value |-> value, ttl |-> maxAge]>> \o Remove(c, key))

\* One clock tick passes over the items.
Age(c) == [i \in 1..Len(c) |-> [c[i] EXCEPT !.ttl = IF @ = 0 THEN 0 ELSE @ - 1]]

\* ------------------------------------------------------------ pixl-curves
\* A curve is an array of 256 output values, one per input value.
Indexes == 0..255

\* What reading an array outside its indexes yields (undefined in the source).
NoEntry == 0 - 1

ChannelNames == {"red", "green", "blue", "alpha"}

\* The flat ramp reset() fills each channel with.
Ramp == [idx \in Indexes |-> idx]

FlatCurve == [ch \in ChannelNames |-> Ramp]

\* array[ value ]
At(array, value) == IF value \in DOMAIN array THEN array[value] ELSE NoEntry

\* generateCurve: the filters hand over 256 Y values, returned as they are.
generateCurve(points) == points

\* apply(opts): opts maps some of rgb, red, green, blue, alpha to arrays; rgb
\* stands for the three colours and overrides them.
CurveFor(opts, ch) ==
    IF ch # "alpha" /\ "rgb" \in DOMAIN opts THEN <<generateCurve(opts["rgb"])>>
    ELSE IF ch \in DOMAIN opts THEN <<generateCurve(opts[ch])>>
    ELSE <<>>

apply(c, opts) ==
    [ch \in ChannelNames |->
        IF CurveFor(opts, ch) = <<>> THEN c[ch]
        ELSE [idx \in Indexes |-> At(CurveFor(opts, ch)[1], c[ch][idx])]]

\* validate: a number below min becomes min, one above max becomes max.
validate(value, min, max) ==
    IF value < min THEN min ELSE IF value > max THEN max ELSE value

\* Math.round( a / b ) for a >= 0 and b > 0.
Round(a, b) == (2 * a + b) \div (2 * b)

Min(a, b) == IF a < b THEN a ELSE b

\* channels is a string matching /^r?g?b?a?$/i, here a sequence of letters;
\* the empty one stands for a missing option, which means rgb.
HasLetter(channels, letter) == \E i \in 1..Len(channels) : channels[i] = letter

MatchRgb(channels) ==
    \E i \in 1..Len(channels) :
        /\ i + 2 <= Len(channels)
        /\ channels[i] = "r" /\ channels[i + 1] = "g" /\ channels[i + 2] = "b"

\* The options a filter hands to apply for its curve and its channels.
Options(channels0, array) ==
    LET channels == IF channels0 = <<>> THEN <<"r", "g", "b">> ELSE channels0
        keys == (IF MatchRgb(channels) THEN {"rgb"}
                 ELSE (IF HasLetter(channels, "r") THEN {"red"} ELSE {})
                      \cup (IF HasLetter(channels, "g") THEN {"green"} ELSE {})
                      \cup (IF HasLetter(channels, "b") THEN {"blue"} ELSE {}))
                \cup (IF HasLetter(channels, "a") THEN {"alpha"} ELSE {})
    IN  [k \in keys |-> array]

\* The channels a filter changes.
Selected(channels) ==
    {ch \in ChannelNames : CurveFor(Options(channels, Ramp), ch) # <<>>}

\* posterize without the Math.min(255, ...) of the source.
StairUnclamped(levels0) ==
    LET levels == 256 \div validate(levels0, 1, 128)
    IN  [idx \in Indexes |-> Round(idx, levels) * levels]

\* posterize: the stair-step curve.
Stair(levels0) ==
    LET levels == 256 \div validate(levels0, 1, 128)
    IN  [idx \in Indexes |-> Min(255, Round(idx, levels) * levels)]

\* solarize: the v curve.
Vee == [idx \in Indexes |-> IF idx < 128 THEN idx ELSE 255 - idx]

\* invert
Inverse == [idx \in Indexes |-> 255 - idx]

\* threshold: the cliff at level.
Cliff(level0) ==
    LET level == validate(level0, 0, 255)
    IN  [idx \in Indexes |-> IF idx < level THEN 0 ELSE 255]

\* temperature: the channel and its curve.
Warmth(amount0) ==
    LET given == validate(amount0, 0 - 255, 255)
        channel == IF given > 0 THEN "red" ELSE "blue"
        amount == IF given > 0 THEN given \div 4 ELSE 0 - (given \div 4)
    IN  [k \in {channel} |-> [idx \in Indexes |-> Min(255, idx + amount)]]

\* normalize: the lowest and the highest value a channel takes among the
\* pixels histogram() counts, those with a nonzero alpha; 0 when there is none.
Counted(pixels, ch) ==
    {pixels[i][ch] : i \in {j \in 1..Len(pixels) : pixels[j]["alpha"] # 0}}

Lows(pixels, ch) ==
    IF Counted(pixels, ch) = {} THEN 0
    ELSE CHOOSE v \in Counted(pixels, ch) : \A w \in Counted(pixels, ch) : v <= w

Highs(pixels, ch) ==
    IF Counted(pixels, ch) = {} THEN 0
    ELSE CHOOSE v \in Counted(pixels, ch) : \A w \in Counted(pixels, ch) : v >= w

\* normalize: the curve stretching lows..highs over the full range.
Stretch(lows, highs) ==
    [idx \in Indexes |->
        IF highs > lows /\ idx >= lows /\ idx <= highs
        THEN ((idx - lows) * 255) \div (highs - lows)
        ELSE idx]

\* normalize: one array per letter of channels, from the canvas as it is.
Normalized(c, channels0, pixels) ==
    LET channels == IF channels0 = <<>> THEN <<"r", "g", "b">> ELSE channels0
        keys == (IF HasLetter(channels, "r") THEN {"red"} ELSE {})
                \cup (IF HasLetter(channels, "g") THEN {"green"} ELSE {})
                \cup (IF HasLetter(channels, "b") THEN {"blue"} ELSE {})
                \cup (IF HasLetter(channels, "a") THEN {"alpha"} ELSE {})
    IN  apply(c, [k \in keys |-> Stretch(Lows(pixels, k), Highs(pixels, k))])

\* render: every channel of every pixel read through its curve.
RenderPixels(c, pixels) ==
    [i \in 1..Len(pixels) |->
        [ch \in ChannelNames |-> At(c[ch], pixels[i][ch])]]

\* ------------------------------------------------------------------- state
VARIABLES
    pc,         \* "init", "preload", "serving", "aborted", "crashed"
    debug,      \* this.serverConfig.debug
    upstream,   \* the content behind each URL (GitHub, or the local file)
    edits,      \* number of upstream changes so far
    cache,      \* this.cache
    articles,   \* this.articles: slug -> article, NoArticle when absent
    pages,      \* config.pages
    nextIdx,    \* async.eachLimit: index of the next element
    running,    \* async.eachLimit: iteratee calls in flight
    eachDone,   \* async.eachLimit: the done flag
    inflight,   \* slugs whose preload fetch is in flight
    calls,      \* what startup's callback was invoked with, in order
    reqs,       \* the requests the web server has open
    regexp1,    \* RegExp.$1: the first group of the last successful match
    probe,      \* a blockquote content whose renderings are compared
    firstOut,   \* what the first rendering of probe returned
    probeRuns,  \* how often probe has been rendered, up to two
    lastOut,    \* what the last call of the blockquote renderer returned
    curve,      \* Curve: this.curve, the four channel arrays
    applied,    \* Curve: the filter calls made since the last reset
    data,       \* CurveDemo: this.data, the image and the filter names
    demo,       \* CurveDemo: "none", "new", "loading" or "ready"
    canvas,     \* CurveDemo: the pixels of this.canvas
    filters,    \* CurveDemo: the data of the div.curve_filter elements
    registered, \* app: the ids of this.plugins
    num_loaded, \* app: this.num_loaded, NoEntry once deleted
    sections,   \* app: this.sections, the dirty flag of each
    visible,    \* app: isVisible of each div.plugin element
    frames,     \* app: pending requestAnimationFrame callbacks
    renders     \* app: how often plugin.render() ran, per div.plugin element

vars == <<pc, debug, upstream, edits, cache, articles, pages, nextIdx,
          running, eachDone, inflight, calls, reqs,
          regexp1, probe, firstOut, probeRuns, lastOut,
          curve, applied, data, demo, canvas, filters,
          registered, num_loaded, sections, visible, frames, renders>>

renderVars == <<regexp1, probe, firstOut, probeRuns, lastOut>>

clientVars == <<curve, applied, data, demo, canvas, filters,
                registered, num_loaded, sections, visible, frames, renders>>

pluginVars == <<registered, num_loaded, sections, visible, frames, renders>>

curveVars == <<curve, applied>>

demoVars == <<data, demo, canvas, filters>>

eachVars == <<nextIdx, running, eachDone, inflight, calls>>

\* The requests the web server has open at once: two, so that calls overlap.
Reqs == {1, 2}

Idle == [pc |-> "idle", url |-> NoUrl, val |-> NoValue,
         src0 |-> NoValue, gets |-> 0, status |-> "", body |-> "", html |-> NoValue,
         answers |-> 0]

\* No blockquote has been rendered: RegExp.$1 is the empty string.
RenderIdle ==
    /\ regexp1 = <<>>
    /\ probe = <<>>
    /\ firstOut = NoOut
    /\ probeRuns = 0
    /\ lastOut = NoOut

\* The page shows no plugin: there is no curve and no canvas.
ClientIdle ==
    /\ curve = <<>>
    /\ applied = <<>>
    /\ data = [image |-> <<>>, filters |-> <<>>]
    /\ demo = "none"
    /\ canvas = <<>>
    /\ filters = <<>>
    /\ registered = {}
    /\ num_loaded = NoEntry
    /\ sections = <<>>
    /\ visible = <<>>
    /\ frames = 0
    /\ renders = <<>>

Init ==
    /\ pc = "init"
    /\ debug \in BOOLEAN
    /\ upstream = [u \in Urls |-> Text(1)]
    /\ edits = 0
    /\ cache = <<>>
    /\ articles = [s \in Slugs |-> NoArticle]
    /\ pages = configPages
    /\ nextIdx = 1
    /\ running = 0
    /\ eachDone = FALSE
    /\ inflight = {}
    /\ calls = <<>>
    /\ reqs = [r \in Reqs |-> Idle]
    /\ RenderIdle
    /\ ClientIdle

\* ------------------------------------------------------- async.eachLimit
\* Faulty variant of CanStart: the limit is ignored.
CanStartUnbounded(run, d) == ~d

\* replenish(): while (running < limit && !done)
CanStart(run, d) == run < PreloadLimit /\ ~d

\* iterateeCallback(): done && running <= 0
Finished(run, d) == d /\ run <= 0

\* Faulty variant of Exhausted: the elements in flight are not waited for.
ExhaustedAlways(run) == TRUE

\* replenish(): if (running <= 0) callback(null)
Exhausted(run) == run <= 0

\* Faulty variant of Once: every invocation goes through.
OnceEvery(cs, result) == Append(cs, result)

\* callback = once(callback): only the first invocation goes through.
Once(cs, result) == IF cs = <<>> THEN <<result>> ELSE cs

\* replenish() on st = [run, idx, d, started, cs].
RECURSIVE Replenish(_)
Replenish(st) ==
    IF ~CanStart(st.run, st.d) THEN st
    ELSE IF st.idx > NumArticles
         THEN [st EXCEPT !.d = TRUE,
                         !.cs = IF Exhausted(st.run) THEN Once(st.cs, "ok") ELSE st.cs]
         ELSE Replenish([st EXCEPT !.run = @ + 1, !.idx = @ + 1,
                                   !.started = @ \cup {configArticles[st.idx]}])

\* iterateeCallback(err) on st.
IterateeCallback(st, err) ==
    LET s1 == [st EXCEPT !.run = @ - 1] IN
    IF err THEN [s1 EXCEPT !.d = TRUE, !.cs = Once(s1.cs, "err")]
    ELSE IF Finished(s1.run, s1.d) THEN [s1 EXCEPT !.d = TRUE, !.cs = Once(s1.cs, "ok")]
    ELSE Replenish(s1)

EachState == [run |-> running, idx |-> nextIdx, d |-> eachDone,
              started |-> inflight, cs |-> calls]

\* The server serves requests once startup's callback got no error.
PcAfter(cs, old) ==
    IF old # "preload" THEN old
    ELSE IF cs = <<>> THEN "preload"
    ELSE IF cs[1] = "ok" THEN "serving" ELSE "aborted"

SetEach(st) ==
    /\ running' = st.run
    /\ nextIdx' = st.idx
    /\ eachDone' = st.d
    /\ inflight' = st.started
    /\ calls' = st.cs
    /\ pc' = PcAfter(st.cs, pc)

\* ------------------------------------------- get_cached_html / get_cached_url
\* Faulty variant of HtmlLookup: the rendered entry counts only while the raw
\* entry is resident too.
HtmlLookupNeedsRaw(c, url) == Has(c, CacheId(url)) /\ Has(c, RawKey(url))

\* if (this.cache.has(cache_id))
HtmlLookup(c, url) == Has(c, CacheId(url))

\* Faulty variant of RawLookup: an entry counts although it has expired.
RawLookupResident(c, url) == IndexOf(c, RawKey(url)) # 0

\* if (this.cache.has(url))
RawLookup(c, url) == Has(c, RawKey(url))

\* Faulty variant of UseLocalFile: the local file is never used.
UseLocalFileNever(dbg, url) == FALSE

\* if (this.serverConfig.debug && url.match(...))
UseLocalFile(dbg, url) == dbg /\ MatchesBlog(url)

\* get_cached_url(url) up to its suspension: a local file read, a
\* setImmediate with the cached text, or an HTTP GET.
StartUrl(c, url, dbg) ==
    IF UseLocalFile(dbg, url)
    THEN [pc |-> "reading", val |-> NoValue, cache |-> c, gets |-> 0]
    ELSE IF RawLookup(c, url)
    THEN [pc |-> "imm_text", val |-> Value(c, RawKey(url)),
          cache |-> Touch(c, RawKey(url)), gets |-> 0]
    ELSE [pc |-> "fetching", val |-> NoValue, cache |-> c, gets |-> 1]

\* get_cached_html(url) up to its suspension.
StartHtml(c, url, dbg) ==
    IF HtmlLookup(c, url)
    THEN [pc |-> "imm_html", val |-> Value(c, CacheId(url)),
          cache |-> Touch(c, CacheId(url)), gets |-> 0]
    ELSE StartUrl(c, url, dbg)

\* Faulty variant of CacheAfterGet: a text larger than the byte budget is not
\* stored, and the entry of its URL is dropped.
CacheAfterGetFits(c, url, err, text) ==
    IF err THEN c
    ELSE IF text.bytes > maxBytes THEN Remove(c, RawKey(url))
    ELSE Set(c, RawKey(url), text)

\* Faulty variant of CacheAfterGet: the text is stored on an error too.
CacheAfterGetAlways(c, url, err, text) == Set(c, RawKey(url), text)

\* The callback of request.get: if (err) return callback(err);
\* self.cache.set( url, text ).
CacheAfterGet(c, url, err, text) ==
    IF err THEN c ELSE Set(c, RawKey(url), text)

\* Faulty variant of CacheAfterRender: the HTML is stored in debug mode too.
CacheAfterRenderAlways(c, url, err, dbg, html) ==
    IF err THEN c ELSE Set(c, CacheId(url), html)

\* Faulty variant of CacheAfterRender: a resident entry is kept as it is.
CacheAfterRenderFirst(c, url, err, dbg, html) ==
    IF err \/ dbg \/ Has(c, CacheId(url)) THEN c ELSE Set(c, CacheId(url), html)

\* The callback of get_cached_url inside get_cached_html: nothing on an error,
\* nothing in debug mode, else self.cache.set( cache_id, html ).
CacheAfterRender(c, url, err, dbg, html) ==
    IF err \/ dbg THEN c ELSE Set(c, CacheId(url), html)

\* What the page handlers answer from get_cached_html's (err, html).
Respond(err, html) ==
    IF err THEN [status |-> "404 Not Found", body |-> "message", html |-> NoValue]
    ELSE [status |-> "200 OK", body |-> "page", html |-> html]

NotFound == [status |-> "404 Not Found", body |-> "message", html |-> NoValue]

\* Faulty variant of Done: the callback of the request is invoked a second
\* time with the same response.
DoneTwice(req, resp) ==
    [req EXCEPT !.pc = "done", !.val = NoValue, !.src0 = NoValue, !.status = resp.status,
                !.body = resp.body, !.html = resp.html, !.answers = @ + 2]

\* callback( status, headers, body ): the request is answered.
Done(req, resp) ==
    [req EXCEPT !.pc = "done", !.val = NoValue, !.src0 = NoValue, !.status = resp.status,
                !.body = resp.body, !.html = resp.html, !.answers = @ + 1]

\* ------------------------------------------------------------------ startup
\* startup(callback): new LRU, then preloadBlog(callback), which starts the
\* first fetches.
startup ==
    /\ pc = "init"
    /\ cache' = <<>>
    /\ articles' = [s \in Slugs |-> NoArticle]
    /\ LET st == Replenish(EachState) IN
        /\ running' = st.run
        /\ nextIdx' = st.idx
        /\ eachDone' = st.d
        /\ inflight' = st.started
        /\ calls' = st.cs
        /\ pc' = "preload"
    /\ UNCHANGED <<debug, upstream, edits, pages, reqs, renderVars, clientVars>>

\* The fetch of a preloaded slug fails: callback(err).
PreloadFetchErr(slug) ==
    /\ pc \in {"preload", "aborted"}
    /\ slug \in inflight
    /\ SetEach(IterateeCallback([EachState EXCEPT !.started = @ \ {slug}], TRUE))
    /\ cache' = IF UseLocalFile(debug, BlogUrl(slug)) THEN cache
                ELSE CacheAfterGet(cache, BlogUrl(slug), TRUE, NoValue)
    /\ UNCHANGED <<debug, upstream, edits, articles, pages, reqs, renderVars, clientVars>>

\* The fetch of a preloaded slug succeeds: the article is parsed and stored.
PreloadFetchOk(slug) ==
    /\ pc \in {"preload", "aborted"}
    /\ slug \in inflight
    /\ LET text == upstream[BlogUrl(slug)] IN
        /\ cache' = IF UseLocalFile(debug, BlogUrl(slug)) THEN cache
                    ELSE CacheAfterGet(cache, BlogUrl(slug), FALSE, text)
        /\ IF ParseThrows(text)
           THEN /\ pc' = "crashed"
                /\ UNCHANGED <<articles, eachVars>>
           ELSE /\ articles' = [articles EXCEPT ![slug] = Article(slug, text)]
                /\ SetEach(IterateeCallback([EachState EXCEPT !.started = @ \ {slug}], FALSE))
    /\ UNCHANGED <<debug, upstream, edits, pages, reqs, renderVars, clientVars>>

\* ----------------------------------------------------------------- handlers
\* A handler calls get_cached_html(url, ...) for request r.
CallHtml(r, url) ==
    LET st == StartHtml(cache, url, debug) IN
    /\ cache' = st.cache
    /\ reqs' = [reqs EXCEPT ![r] =
                  [Idle EXCEPT !.pc = st.pc, !.url = url,
                               !.val = st.val,
                               !.src0 = IF url \in Urls THEN upstream[url] ELSE NoValue,
                               !.gets = st.gets]]

\* The property names every plain object inherits from Object.prototype,
\* as far as requests use them: this.articles and config.pages are plain
\* objects, so articles[name] and pages[name] are truthy for them.
Inherited == {"constructor"}

\* this.articles[slug] is truthy.
HasArticle(slug) ==
    slug \in Inherited \/ (slug \in Slugs /\ articles[slug] # NoArticle)

\* config.pages[id] is truthy.
HasPage(id) == id \in Inherited \/ id \in PageIds

\* config.pages[id]; an inherited value has none of org, repo, branch, file.
PageOf(id) ==
    IF id \in PageIds THEN pages[id]
    ELSE [org |-> Undefined, repo |-> Undefined, branch |-> Undefined, file |-> Undefined]

\* handle_blog(slug, ...); /blog/ alone asks for config.articles[0].
handle_blog(r, slug) ==
    /\ pc = "serving" /\ reqs[r].pc = "idle"
    /\ IF ~HasArticle(slug)
       THEN /\ reqs' = [reqs EXCEPT ![r] = Done(Idle, NotFound)]
            /\ UNCHANGED cache
       ELSE CallHtml(r, BlogUrl(slug))
    /\ UNCHANGED <<pc, debug, upstream, edits, articles, pages, eachVars, renderVars, clientVars>>

\* handle_page(id, ...)
handle_page(r, id) ==
    /\ pc = "serving" /\ reqs[r].pc = "idle"
    /\ IF ~HasPage(id)
       THEN /\ reqs' = [reqs EXCEPT ![r] = Done(Idle, NotFound)]
            /\ UNCHANGED <<cache, pages>>
       ELSE LET file == IF PageOf(id).file = Undefined THEN "README.md"
                        ELSE PageOf(id).file IN
            /\ pages' = IF id \in PageIds THEN [pages EXCEPT ![id].file = file] ELSE pages
            /\ CallHtml(r, PageUrl([PageOf(id) EXCEPT !.file = file]))
    /\ UNCHANGED <<pc, debug, upstream, edits, articles, eachVars, renderVars, clientVars>>

\* handle_doc(repo, path, ...)
handle_doc(r, repo, path) ==
    /\ pc = "serving" /\ reqs[r].pc = "idle"
    /\ IF ~HasPage(repo)
       THEN /\ reqs' = [reqs EXCEPT ![r] = Done(Idle, NotFound)]
            /\ UNCHANGED cache
       ELSE CallHtml(r, PageUrl([PageOf(repo) EXCEPT !.file = path]))
    /\ UNCHANGED <<pc, debug, upstream, edits, articles, pages, eachVars, renderVars, clientVars>>

\* handle_home and handle_feed answer at once from this.articles.
handle_home(r) ==
    /\ pc = "serving" /\ reqs[r].pc = "idle"
    /\ reqs' = [reqs EXCEPT ![r] = Done(Idle,
                    [status |-> "200 OK", body |-> "home", html |-> NoValue])]
    /\ UNCHANGED <<pc, debug, upstream, edits, cache, articles, pages, eachVars, renderVars, clientVars>>

handle_feed(r) ==
    /\ pc = "serving" /\ reqs[r].pc = "idle"
    /\ reqs' = [reqs EXCEPT ![r] = Done(Idle,
                    [status |-> "200 OK", body |-> "feed", html |-> NoValue])]
    /\ UNCHANGED <<pc, debug, upstream, edits, cache, articles, pages, eachVars, renderVars, clientVars>>

\* Faulty variant of Deliver: the article of a blog URL is parsed again from
\* the text that was fetched.
DeliverReindex(r, c, err, text) ==
    /\ cache' = CacheAfterRender(c, reqs[r].url, err, debug, Render(text))
    /\ reqs' = [reqs EXCEPT ![r] = Done(reqs[r], Respond(err, Render(text)))]
    /\ articles' = IF ~err /\ MatchesBlog(reqs[r].url) /\ ~ParseThrows(text)
                   THEN [articles EXCEPT ![reqs[r].url[4]] = Article(reqs[r].url[4], text)]
                   ELSE articles
    /\ UNCHANGED <<pc, debug, upstream, edits, pages, eachVars, renderVars, clientVars>>

\* Faulty variant of Deliver: a failed fetch is started again instead of being
\* reported.
DeliverRetry(r, c, err, text) ==
    /\ cache' = CacheAfterRender(c, reqs[r].url, err, debug, Render(text))
    /\ reqs' = [reqs EXCEPT ![r] =
                  IF err THEN [reqs[r] EXCEPT !.gets = @ + 1]
                  ELSE Done(reqs[r], Respond(err, Render(text)))]
    /\ UNCHANGED <<pc, debug, upstream, edits, articles, pages, eachVars, renderVars, clientVars>>

\* get_cached_url's callback with (err, text), then get_cached_html's, then
\* the handler's: request r is answered.
Deliver(r, c, err, text) ==
    LET html == Render(text) IN
    /\ cache' = CacheAfterRender(c, reqs[r].url, err, debug, html)
    /\ reqs' = [reqs EXCEPT ![r] = Done(reqs[r], Respond(err, html))]
    /\ UNCHANGED <<pc, debug, upstream, edits, articles, pages, eachVars, renderVars, clientVars>>

\* The HTTP GET of request r succeeds: there is content behind its URL.
FetchOk(r) ==
    /\ pc = "serving" /\ reqs[r].pc = "fetching"
    /\ reqs[r].url \in Urls
    /\ LET text == upstream[reqs[r].url] IN
       Deliver(r, CacheAfterGet(cache, reqs[r].url, FALSE, text), FALSE, text)

\* The HTTP GET of request r fails.
FetchErr(r) ==
    /\ pc = "serving" /\ reqs[r].pc = "fetching"
    /\ Deliver(r, CacheAfterGet(cache, reqs[r].url, TRUE, NoValue), TRUE, NoValue)

\* fs.readFile of the local blog file succeeds (debug mode).
ReadOk(r) ==
    /\ pc = "serving" /\ reqs[r].pc = "reading"
    /\ reqs[r].url \in Urls
    /\ Deliver(r, cache, FALSE, upstream[reqs[r].url])

\* fs.readFile of the local blog file fails (debug mode).
ReadErr(r) ==
    /\ pc = "serving" /\ reqs[r].pc = "reading"
    /\ Deliver(r, cache, TRUE, NoValue)

\* setImmediate of get_cached_url: callback(null, text) with the cached text.
ImmediateText(r) ==
    /\ pc = "serving" /\ reqs[r].pc = "imm_text"
    /\ Deliver(r, cache, FALSE, reqs[r].val)

\* setImmediate of get_cached_html: callback(null, html) with the cached html.
ImmediateHtml(r) ==
    /\ pc = "serving" /\ reqs[r].pc = "imm_html"
    /\ reqs' = [reqs EXCEPT ![r] = Done(reqs[r], Respond(FALSE, reqs[r].val))]
    /\ UNCHANGED <<pc, debug, upstream, edits, cache, articles, pages, eachVars, renderVars, clientVars>>

\* The answered request is closed; the slot takes the next request.
Close(r) ==
    /\ reqs[r].pc = "done"
    /\ reqs' = [reqs EXCEPT ![r] = Idle]
    /\ UNCHANGED <<pc, debug, upstream, edits, cache, articles, pages, eachVars, renderVars, clientVars>>

\* -------------------------------------------------------------- environment
\* The upstream content of a URL changes before the server serves.
EditBeforeServing(url, text) ==
    /\ pc \in {"init", "preload"}
    /\ edits < MaxEdits
    /\ upstream[url] # text
    /\ upstream' = [upstream EXCEPT ![url] = text]
    /\ edits' = edits + 1
    /\ UNCHANGED <<pc, debug, cache, articles, pages, eachVars, reqs, renderVars, clientVars>>

\* The upstream content of a URL changes while the server serves.
EditWhileServing(url, text) ==
    /\ pc = "serving"
    /\ edits < MaxEdits
    /\ upstream[url] # text
    /\ upstream' = [upstream EXCEPT ![url] = text]
    /\ edits' = edits + 1
    /\ UNCHANGED <<pc, debug, cache, articles, pages, eachVars, reqs, renderVars, clientVars>>

\* Time passes.
Tick ==
    /\ pc # "crashed"
    /\ cache' = Age(cache)
    /\ UNCHANGED <<pc, debug, upstream, edits, articles, pages, eachVars, reqs, renderVars, clientVars>>

\* The slugs, page ids and texts the requests and edits are drawn from.
ReqSlugs == {configArticles[1], Unknown}

ReqPageIds == PageIds \cup {Unknown}

ServingTexts == {Text(2), Text(7)}

BlogUrls == {BlogUrl(s) : s \in Slugs}

ReqUrls == {BlogUrl(s) : s \in ReqSlugs \cap Slugs}
            \cup {PageUrl([configPages[id] EXCEPT !.file = f]) : id \in PageIds, f \in DocPaths}

\* The changes of upstream content while the server serves: a requested URL
\* gets the second revision, a repository file may also grow beyond maxBytes.
ServingEdits ==
    {<<url, text>> \in ReqUrls \X ServingTexts : text = Text(7) => ~MatchesBlog(url)}

NextPreload ==
    \/ startup
    \/ \E slug \in Slugs : PreloadFetchErr(slug)
    \/ \E slug \in Slugs : PreloadFetchOk(slug)
    \/ \E url \in BlogUrls, text \in Texts : EditBeforeServing(url, text)

NextServing ==
    \/ \E r \in Reqs, slug \in ReqSlugs : handle_blog(r, slug)
    \/ \E r \in Reqs, id \in ReqPageIds : handle_page(r, id)
    \/ \E r \in Reqs, id \in ReqPageIds, path \in DocPaths : handle_doc(r, id, path)
    \/ \E r \in Reqs : handle_home(r)
    \/ \E r \in Reqs : handle_feed(r)
    \/ \E r \in Reqs : FetchOk(r)
    \/ \E r \in Reqs : FetchErr(r)
    \/ \E r \in Reqs : ReadOk(r)
    \/ \E r \in Reqs : ReadErr(r)
    \/ \E r \in Reqs : ImmediateText(r)
    \/ \E r \in Reqs : ImmediateHtml(r)
    \/ \E r \in Reqs : Close(r)
    \/ \E edit \in ServingEdits : EditWhileServing(edit[1], edit[2])

\* Startup and preload alone, with the content changing under it.
SpecPreload == Init /\ [][NextPreload]_vars

Next ==
    \/ startup
    \/ \E slug \in Slugs : PreloadFetchErr(slug)
    \/ \E slug \in Slugs : PreloadFetchOk(slug)
    \/ NextServing
    \/ Tick

\* The whole service: startup, preload, then requests.
Spec == Init /\ [][Next]_vars

\* The cache preload leaves when the fetches complete in the order of
\* config.articles: the texts set one after the other.
RECURSIVE PreloadedCache(_)
PreloadedCache(n) ==
    IF n = 0 THEN <<>>
    ELSE CacheAfterGet(PreloadedCache(n - 1), BlogUrl(configArticles[n]), FALSE, Text(1))

\* The state in which startup's callback has reported success after the
\* fetches completed in the order of config.articles; Spec reaches it.
InitServing ==
    /\ pc = "serving"
    /\ debug \in BOOLEAN
    /\ upstream = [u \in Urls |-> Text(1)]
    /\ edits = 0
    /\ cache = IF debug THEN <<>> ELSE PreloadedCache(NumArticles)
    /\ articles = [s \in Slugs |-> Article(s, Text(1))]
    /\ pages = configPages
    /\ nextIdx = NumArticles + 1
    /\ running = 0
    /\ eachDone = TRUE
    /\ inflight = {}
    /\ calls = <<"ok">>
    /\ reqs = [r \in Reqs |-> Idle]
    /\ RenderIdle
    /\ ClientIdle

\* The service from the moment it serves requests.
SpecServing == InitServing /\ [][NextServing \/ Tick]_vars

\* ------------------------------------------------------ the request router
\* A request URL is a sequence of tokens: "/", "?", and the text between.
\* The tokens made of the characters of [\w\-] only.
IdTokens == {"blog", "view", "doc", "feed", "a1", "nope", "constructor",
             "pixl-server", "undefined", "q"}

RECURSIVE JoinTokens(_)
JoinTokens(toks) == IF toks = <<>> THEN "" ELSE Head(toks) \o JoinTokens(Tail(toks))

\* url.replace(/\?.*$/): called without a replacement, so the match is
\* replaced by the string "undefined".
Replaced(url) ==
    LET qs == {i \in 1..Len(url) : url[i] = "?"}
    IN  IF qs = {} THEN url
        ELSE SubSeq(url, 1, (CHOOSE i \in qs : \A j \in qs : i <= j) - 1) \o <<"undefined">>

\* Whether uri starts with / and the word, followed by /.
Under(uri, word) ==
    Len(uri) >= 3 /\ uri[1] = "/" /\ uri[2] = word /\ uri[3] = "/"

\* What follows the / after the first word.
Rest(uri) == SubSeq(uri, 4, Len(uri))

\* (.+?)\/?$ : the rest without one trailing slash, unless that is all of it.
Unslashed(rest) ==
    IF Len(rest) >= 2 /\ rest[Len(rest)] = "/" THEN SubSeq(rest, 1, Len(rest) - 1)
    ELSE rest

\* The index of the first / of rest, 0 when there is none.
FirstSlash(rest) ==
    LET ss == {i \in 1..Len(rest) : rest[i] = "/"}
    IN  IF ss = {} THEN 0 ELSE CHOOSE i \in ss : \A j \in ss : i <= j

AllIds(toks) == toks # <<>> /\ \A i \in 1..Len(toks) : toks[i] \in IdTokens

\* The if-chain of handler, on the uri it computed.
Route(uri) ==
    IF Under(uri, "blog") /\ Rest(uri) # <<>>
    THEN [to |-> "blog", a |-> JoinTokens(Unslashed(Rest(uri))), b |-> ""]
    ELSE IF uri = <<"/", "blog">> \/ uri = <<"/", "blog", "/">>
    THEN [to |-> "blog", a |-> configArticles[1], b |-> ""]
    ELSE IF Under(uri, "view") /\ AllIds(Unslashed(Rest(uri)))
    THEN [to |-> "page", a |-> JoinTokens(Unslashed(Rest(uri))), b |-> ""]
    ELSE IF /\ Under(uri, "doc")
            /\ FirstSlash(Rest(uri)) > 1
            /\ AllIds(SubSeq(Rest(uri), 1, FirstSlash(Rest(uri)) - 1))
            /\ FirstSlash(Rest(uri)) < Len(Rest(uri))
    THEN [to |-> "doc",
          a |-> JoinTokens(SubSeq(Rest(uri), 1, FirstSlash(Rest(uri)) - 1)),
          b |-> JoinTokens(SubSeq(Rest(uri), FirstSlash(Rest(uri)) + 1, Len(Rest(uri))))]
    ELSE IF Len(uri) >= 2 /\ uri[1] = "/" /\ uri[2] = "feed"
    THEN [to |-> "feed", a |-> "", b |-> ""]
    ELSE [to |-> "home", a |-> "", b |-> ""]

\* handler(args, callback) for the request url, in slot r.
handler(r, url) ==
    LET route == Route(Replaced(url)) IN
    CASE route.to = "blog" -> handle_blog(r, route.a)
      [] route.to = "page" -> handle_page(r, route.a)
      [] route.to = "doc" -> handle_doc(r, route.a, route.b)
      [] route.to = "feed" -> handle_feed(r)
      [] OTHER -> handle_home(r)

\* The paths requested, and the same with a query string.
ReqPaths ==
    {<<"/">>, <<"/", "blog">>, <<"/", "blog", "/">>,
     <<"/", "blog", "/", "a1">>, <<"/", "blog", "/", "a1", "/">>,
     <<"/", "blog", "/", "nope">>, <<"/", "blog", "/", "constructor">>,
     <<"/", "view", "/", "pixl-server">>, <<"/", "view", "/", "nope">>,
     <<"/", "view", "/", "constructor">>,
     <<"/", "doc", "/", "pixl-server", "/", "README.md">>,
     <<"/", "doc", "/", "nope", "/", "README.md">>,
     <<"/", "doc", "/", "constructor", "/", "README.md">>,
     <<"/", "feed">>}

Query == <<"?", "q">>

ReqUris == ReqPaths \cup {path \o Query : path \in ReqPaths}

NextRouting ==
    \/ \E r \in Reqs, url \in ReqUris : handler(r, url)
    \/ \E r \in Reqs : FetchOk(r)
    \/ \E r \in Reqs : FetchErr(r)
    \/ \E r \in Reqs : ReadOk(r)
    \/ \E r \in Reqs : ReadErr(r)
    \/ \E r \in Reqs : ImmediateText(r)
    \/ \E r \in Reqs : ImmediateHtml(r)
    \/ \E r \in Reqs : Close(r)
    \/ Tick

\* The service from the moment it serves, taking whole request URLs.
SpecRouting == InitServing /\ [][NextRouting]_vars

\* Every HTTP request, file read and setImmediate that was started completes,
\* with success or with failure: a request leaves "fetching" only by FetchOk
\* or FetchErr and FetchErr is enabled as long as it is there, so fairness of
\* the failure says that the fetch does not stay pending for ever, and leaves
\* the outcome open; the same for the file read.
Completes ==
    \A r \in Reqs :
        /\ WF_vars(FetchErr(r))
        /\ WF_vars(ReadErr(r))
        /\ WF_vars(ImmediateText(r))
        /\ WF_vars(ImmediateHtml(r))

SpecRoutingFair == SpecRouting /\ Completes

\* ------------------------------------------------ the age of what is served
\* The URLs requested, numbered.
FreshUrls == <<BlogUrl(configArticles[1]), PageUrl([configPages["pixl-server"] EXCEPT !.file = "README.md"])>>

UrlNo(url) == CHOOSE n \in 1..Len(FreshUrls) : FreshUrls[n] = url

\* The content behind url at time t: every URL has its own, and it changes
\* with every tick of the clock, so that a text tells where and when it was
\* fetched.  The clock is the variable edits.
Stamp(url, t) ==
    IF \E n \in 1..Len(FreshUrls) : FreshUrls[n] = url
    THEN Text(100 * UrlNo(url) + t)
    ELSE Text(1)

Published(t) == [u \in Urls |-> Stamp(u, t)]

\* The URL and the time a text or its rendering was fetched from and at.
StampUrl(value) == FreshUrls[value.id \div 100]

StampTime(value) == value.id % 100

\* How long the clock runs: beyond twice the TTL.
MaxClock == 2 * maxAge + 2

\* One tick of the clock: the entries age and the upstream content changes.
\* A setImmediate callback runs, and an answer is sent, before the clock
\* advances.
Publish ==
    /\ pc = "serving"
    /\ edits < MaxClock
    /\ \A r \in Reqs : reqs[r].pc \notin {"imm_text", "imm_html", "done"}
    /\ edits' = edits + 1
    /\ cache' = Age(cache)
    /\ upstream' = Published(edits')
    /\ UNCHANGED <<pc, debug, articles, pages, eachVars, reqs, renderVars, clientVars>>

\* The cache preload leaves at time 0.
RECURSIVE FreshPreloaded(_)
FreshPreloaded(n) ==
    IF n = 0 THEN <<>>
    ELSE CacheAfterGet(FreshPreloaded(n - 1), BlogUrl(configArticles[n]), FALSE,
                       Stamp(BlogUrl(configArticles[n]), 0))

\* The service outside debug mode when preload has just completed.
InitFresh ==
    /\ pc = "serving"
    /\ debug = FALSE
    /\ upstream = Published(0)
    /\ edits = 0
    /\ cache = FreshPreloaded(NumArticles)
    /\ articles = [s \in Slugs |-> Article(s, Text(1))]
    /\ pages = configPages
    /\ nextIdx = NumArticles + 1
    /\ running = 0
    /\ eachDone = TRUE
    /\ inflight = {}
    /\ calls = <<"ok">>
    /\ reqs = [r \in Reqs |-> Idle]
    /\ RenderIdle
    /\ ClientIdle

NextFresh ==
    \/ \E r \in Reqs : handle_blog(r, configArticles[1])
    \/ \E r \in Reqs : handle_doc(r, "pixl-server", "README.md")
    \/ \E r \in Reqs : FetchOk(r)
    \/ \E r \in Reqs : FetchErr(r)
    \/ \E r \in Reqs : ImmediateText(r)
    \/ \E r \in Reqs : ImmediateHtml(r)
    \/ \E r \in Reqs : Close(r)
    \/ Publish

\* The service outside debug mode over content that changes all the time.
SpecFresh == InitFresh /\ [][NextFresh]_vars

\* --------------------------------------------------- the renderer alone
\* marked.parse calls the blockquote renderer on the content html.
RenderQuote(html) ==
    LET res == blockquote(html, regexp1) IN
    /\ lastOut' = res.out
    /\ regexp1' = res.re
    /\ firstOut' = IF html = probe /\ firstOut = NoOut THEN res.out ELSE firstOut
    /\ probeRuns' = IF html = probe /\ probeRuns < 2 THEN probeRuns + 1 ELSE probeRuns
    /\ UNCHANGED <<pc, debug, upstream, edits, cache, articles, pages, eachVars,
                   reqs, probe, clientVars>>

NextRender == \E html \in Quotes : RenderQuote(html)

\* The serving state with no blockquote rendered yet.
InitRender ==
    /\ pc = "serving"
    /\ debug = FALSE
    /\ upstream = [u \in Urls |-> Text(1)]
    /\ edits = 0
    /\ cache = <<>>
    /\ articles = [s \in Slugs |-> Article(s, Text(1))]
    /\ pages = configPages
    /\ nextIdx = NumArticles + 1
    /\ running = 0
    /\ eachDone = TRUE
    /\ inflight = {}
    /\ calls = <<"ok">>
    /\ reqs = [r \in Reqs |-> Idle]
    /\ regexp1 = <<>>
    /\ probe \in Probes
    /\ firstOut = NoOut
    /\ probeRuns = 0
    /\ lastOut = NoOut
    /\ ClientIdle

\* The blockquote renderer under any sequence of calls.
SpecRender == InitRender /\ [][NextRender]_vars

\* ------------------------------------------------- the cache calls alone
\* The calls api.js makes on this.cache, taken one at a time and in any
\* order, with keys and values the handlers can produce.
\* self.cache.set( url, text ) of get_cached_url.
StoreText(url, text) ==
    /\ cache' = CacheAfterGet(cache, url, FALSE, text)
    /\ UNCHANGED <<pc, debug, upstream, edits, articles, pages, eachVars, reqs, renderVars, clientVars>>

\* self.cache.set( cache_id, html ) of get_cached_html.
StoreHtml(url, text) ==
    /\ cache' = CacheAfterRender(cache, url, FALSE, debug, Render(text))
    /\ UNCHANGED <<pc, debug, upstream, edits, articles, pages, eachVars, reqs, renderVars, clientVars>>

\* this.cache.has(url) and, when it holds, this.cache.get(url).
LookupText(url) ==
    /\ RawLookup(cache, url)
    /\ cache' = StartUrl(cache, url, debug).cache
    /\ UNCHANGED <<pc, debug, upstream, edits, articles, pages, eachVars, reqs, renderVars, clientVars>>

\* this.cache.has(cache_id) and, when it holds, this.cache.get(cache_id).
LookupHtml(url) ==
    /\ HtmlLookup(cache, url)
    /\ cache' = StartHtml(cache, url, debug).cache
    /\ UNCHANGED <<pc, debug, upstream, edits, articles, pages, eachVars, reqs, renderVars, clientVars>>

\* The texts the cache calls are made with.
CacheTexts == {Text(1), Text(2), Text(7)}

NextCache ==
    \/ \E url \in ReqUrls, text \in CacheTexts : StoreText(url, text)
    \/ \E url \in ReqUrls, text \in CacheTexts : StoreHtml(url, text)
    \/ \E url \in ReqUrls : LookupText(url)
    \/ \E url \in ReqUrls : LookupHtml(url)
    \/ Tick

\* The serving state outside debug mode with the cache as startup made it.
InitCache ==
    /\ pc = "serving"
    /\ debug = FALSE
    /\ upstream = [u \in Urls |-> Text(1)]
    /\ edits = 0
    /\ cache = <<>>
    /\ articles = [s \in Slugs |-> Article(s, Text(1))]
    /\ pages = configPages
    /\ nextIdx = NumArticles + 1
    /\ running = 0
    /\ eachDone = TRUE
    /\ inflight = {}
    /\ calls = <<"ok">>
    /\ reqs = [r \in Reqs |-> Idle]
    /\ RenderIdle
    /\ ClientIdle

\* The cache under the calls of api.js, whatever their order.
SpecCache == InitCache /\ [][NextCache]_vars

\* ------------------------------------------------- the parser at preload
\* The texts preload may be served: the first slug gets any document, the
\* other slugs the well-formed one.
ParseTexts == Texts \cup {Text(id) : id \in ParseIds}

InitParse ==
    /\ pc = "init"
    /\ debug \in BOOLEAN
    /\ \E text \in ParseTexts :
          upstream = [u \in Urls |->
                        IF u = BlogUrl(configArticles[1]) THEN text ELSE Text(1)]
    /\ edits = 0
    /\ cache = <<>>
    /\ articles = [s \in Slugs |-> NoArticle]
    /\ pages = configPages
    /\ nextIdx = 1
    /\ running = 0
    /\ eachDone = FALSE
    /\ inflight = {}
    /\ calls = <<>>
    /\ reqs = [r \in Reqs |-> Idle]
    /\ RenderIdle
    /\ ClientIdle

NextParse ==
    \/ startup
    \/ \E slug \in Slugs : PreloadFetchErr(slug)
    \/ \E slug \in Slugs : PreloadFetchOk(slug)

\* Startup and preload over content that does not change.
SpecParse == InitParse /\ [][NextParse]_vars

\* ------------------------------------------------------ the curve filters
serverVars == <<pc, debug, upstream, edits, cache, articles, pages, eachVars,
                reqs, renderVars>>

\* The service serving, with nothing in flight: the page is what changes.
ServerIdle ==
    /\ pc = "serving"
    /\ debug = FALSE
    /\ upstream = [u \in Urls |-> Text(1)]
    /\ edits = 0
    /\ cache = <<>>
    /\ articles = [s \in Slugs |-> Article(s, Text(1))]
    /\ pages = configPages
    /\ nextIdx = NumArticles + 1
    /\ running = 0
    /\ eachDone = TRUE
    /\ inflight = {}
    /\ calls = <<"ok">>
    /\ reqs = [r \in Reqs |-> Idle]
    /\ RenderIdle

\* How many filter calls are followed after a reset.
MaxOps == 2

\* The arguments the filters are called with: in range, at the limits and
\* beyond them (validate clamps those).
ChannelStrings == {<<>>, <<"a">>, <<"g", "b">>, <<"r", "g", "b", "a">>}
LevelsArgs == {1, 4, 128, 200}
LevelArgs == {0 - 5, 128, 300}
AmountArgs == {0 - 300, 0, 100}

Call(op, arg, channels) == [op |-> op, arg |-> arg, channels |-> channels]

reset ==
    /\ curve' = FlatCurve
    /\ applied' = <<>>
    /\ UNCHANGED <<serverVars, demoVars, pluginVars>>

posterize(levels, channels) ==
    /\ Len(applied) < MaxOps
    /\ curve' = apply(curve, Options(channels, Stair(levels)))
    /\ applied' = Append(applied, Call("posterize", levels, channels))
    /\ UNCHANGED <<serverVars, demoVars, pluginVars>>

solarize(channels) ==
    /\ Len(applied) < MaxOps
    /\ curve' = apply(curve, Options(channels, Vee))
    /\ applied' = Append(applied, Call("solarize", 0, channels))
    /\ UNCHANGED <<serverVars, demoVars, pluginVars>>

invert(channels) ==
    /\ Len(applied) < MaxOps
    /\ curve' = apply(curve, Options(channels, Inverse))
    /\ applied' = Append(applied, Call("invert", 0, channels))
    /\ UNCHANGED <<serverVars, demoVars, pluginVars>>

temperature(amount) ==
    /\ Len(applied) < MaxOps
    /\ curve' = apply(curve, Warmth(amount))
    /\ applied' = Append(applied, Call("temperature", amount, <<>>))
    /\ UNCHANGED <<serverVars, demoVars, pluginVars>>

threshold(level, channels) ==
    /\ Len(applied) < MaxOps
    /\ curve' = apply(curve, Options(channels, Cliff(level)))
    /\ applied' = Append(applied, Call("threshold", level, channels))
    /\ UNCHANGED <<serverVars, demoVars, pluginVars>>

NextCurve ==
    \/ reset
    \/ \E levels \in LevelsArgs, channels \in ChannelStrings : posterize(levels, channels)
    \/ \E channels \in ChannelStrings : solarize(channels)
    \/ \E channels \in ChannelStrings : invert(channels)
    \/ \E amount \in AmountArgs : temperature(amount)
    \/ \E level \in LevelArgs, channels \in ChannelStrings : threshold(level, channels)

\* A page without plugin sections.
PluginsIdle ==
    /\ registered = {}
    /\ num_loaded = NoEntry
    /\ sections = <<>>
    /\ visible = <<>>
    /\ frames = 0
    /\ renders = <<>>

\* new Curve(canvas): the constructor calls reset().
InitCurve ==
    /\ ServerIdle
    /\ curve = FlatCurve
    /\ applied = <<>>
    /\ data = [image |-> <<>>, filters |-> <<>>]
    /\ demo = "none"
    /\ canvas = <<>>
    /\ filters = <<>>
    /\ PluginsIdle

\* A curve under any sequence of filter calls.
SpecCurve == InitCurve /\ [][NextCurve]_vars

\* ----------------------------------------------------- the curves demo
Pixel(r, g, b, a) == [red |-> r, green |-> g, blue |-> b, alpha |-> a]

\* A canvas just created: transparent black.
Blank(n) == [i \in 1..n |-> Pixel(0, 0, 0, 0)]

\* The images of the demo, two pixels each: one of low contrast, one that
\* spans the full range already.
Images == {<<Pixel(50, 100, 150, 255), Pixel(200, 100, 50, 255)>>,
           <<Pixel(0, 0, 255, 255), Pixel(255, 255, 0, 255)>>}

\* data-filters of the plugin element.
FilterLists == {<<"normalize">>, <<"threshold", "normalize">>, <<"invert">>,
                <<"temperature">>, <<"posterize">>, <<"solarize">>}

\* The value of the slider setup() gives a filter.
SliderValue(fname) ==
    CASE fname = "posterize" -> 8
      [] fname = "threshold" -> 128
      [] OTHER -> 0

\* The values the sliders are moved to.
SliderValues(fname) ==
    CASE fname = "posterize" -> {4, 8}
      [] fname = "threshold" -> {64, 128}
      [] fname = "temperature" -> {0, 100}
      [] OTHER -> {}

\* update: channels of a filter, from its red, green and blue flags.
ChannelsOf(f) ==
    (IF f.red THEN <<"r">> ELSE <<>>) \o (IF f.green THEN <<"g">> ELSE <<>>)
        \o (IF f.blue THEN <<"b">> ELSE <<>>)

\* update: whether the each() callback reaches the switch for a filter.
Runs(f) == f.enabled /\ ChannelsOf(f) # <<>>

\* update: the case of the switch for one filter.
FilterCase(c, f, pixels) ==
    CASE f.fname = "posterize" -> apply(c, Options(ChannelsOf(f), Stair(f.value)))
      [] f.fname = "solarize" -> apply(c, Options(ChannelsOf(f), Vee))
      [] f.fname = "invert" -> apply(c, Options(ChannelsOf(f), Inverse))
      [] f.fname = "temperature" -> apply(c, Warmth(f.value))
      [] f.fname = "normalize" -> Normalized(c, ChannelsOf(f), pixels)
      [] f.fname = "threshold" -> apply(c, Options(ChannelsOf(f), Cliff(f.value)))
      [] OTHER -> c

\* update: the curve after the first n filters, starting from reset().
RECURSIVE Filtered(_, _, _)
Filtered(fs, n, pixels) ==
    IF n = 0 THEN FlatCurve
    ELSE IF Runs(fs[n]) THEN FilterCase(Filtered(fs, n - 1, pixels), fs[n], pixels)
    ELSE Filtered(fs, n - 1, pixels)

\* update: the calls made on the curve.
RECURSIVE CallsOf(_, _)
CallsOf(fs, n) ==
    IF n = 0 THEN <<>>
    ELSE IF Runs(fs[n])
         THEN Append(CallsOf(fs, n - 1), Call(fs[n].fname, fs[n].value, ChannelsOf(fs[n])))
         ELSE CallsOf(fs, n - 1)

\* update(): reset, the enabled filters in order, then clearRect, drawImage
\* and curve.render(). fs and pixels are the controls and the canvas the call
\* finds.
Updated(fs, pixels) ==
    /\ curve' = Filtered(fs, Len(fs), pixels)
    /\ applied' = CallsOf(fs, Len(fs))
    /\ canvas' = RenderPixels(curve', data.image)

\* CurveDemo.render: the section scrolls into view, the image starts loading.
demoRender ==
    /\ demo = "new"
    /\ demo' = "loading"
    /\ UNCHANGED <<serverVars, pluginVars, curve, applied, data, canvas, filters>>

\* CurveDemo.setup: the image has loaded.
setup ==
    /\ demo = "loading"
    /\ demo' = "ready"
    /\ filters' = [i \in 1..Len(data.filters) |->
                     [fname |-> data.filters[i], enabled |-> TRUE, red |-> TRUE,
                      green |-> TRUE, blue |-> TRUE,
                      value |-> SliderValue(data.filters[i])]]
    /\ Updated(filters', Blank(Len(data.image)))
    /\ UNCHANGED <<serverVars, pluginVars, data>>

\* CurveDemo.update, called with the controls as they are: the change event
\* that follows an input event of the same slider.
update ==
    /\ demo = "ready"
    /\ Updated(filters, canvas)
    /\ UNCHANGED <<serverVars, pluginVars, data, demo, filters>>

\* The input event of a slider.
inputChange(i, value) ==
    /\ demo = "ready"
    /\ i \in 1..Len(filters)
    /\ value \in SliderValues(filters[i].fname)
    /\ filters' = [filters EXCEPT ![i].value = value]
    /\ Updated(filters', canvas)
    /\ UNCHANGED <<serverVars, pluginVars, data, demo>>

toggleFilter(i) ==
    /\ demo = "ready"
    /\ i \in 1..Len(filters)
    /\ filters' = [filters EXCEPT ![i].enabled = ~@]
    /\ Updated(filters', canvas)
    /\ UNCHANGED <<serverVars, pluginVars, data, demo>>

toggleFilterRGB(i, channel) ==
    /\ demo = "ready"
    /\ i \in 1..Len(filters)
    /\ filters' = [filters EXCEPT ![i][channel] = ~@]
    /\ Updated(filters', canvas)
    /\ UNCHANGED <<serverVars, pluginVars, data, demo>>

\* The longest data-filters list.
MaxFilters == 2

NextDemo ==
    \/ demoRender
    \/ setup
    \/ update
    \/ \E i \in 1..MaxFilters, value \in 0..255 : inputChange(i, value)
    \/ \E i \in 1..MaxFilters : toggleFilter(i)
    \/ \E i \in 1..MaxFilters, channel \in {"red", "green", "blue"} : toggleFilterRGB(i, channel)

\* A page with one curves plugin, constructed and not yet rendered.
InitDemo ==
    /\ ServerIdle
    /\ curve = <<>>
    /\ applied = <<>>
    /\ \E image \in Images, names \in FilterLists :
          data = [image |-> image, filters |-> names]
    /\ demo = "new"
    /\ canvas = <<>>
    /\ filters = <<>>
    /\ PluginsIdle

SpecDemo == InitDemo /\ [][NextDemo]_vars

\* ------------------------------------------------- blog plugin sections
\* The div.plugin elements of the article shown.
NumSections == 3

Elems == 1..NumSections

\* data-plugin of an element.
PluginOf(i) == IF i % 2 = 1 THEN "curves" ELSE "chart"

PluginIds == {PluginOf(i) : i \in Elems}

\* this.num_plugins as loadBlogPlugins leaves it.
num_plugins == Cardinality(PluginIds)

\* A section left as it was after its render.
Kept(section) == section

\* section.dirty = false
Cleared(section) == [section EXCEPT !.dirty = FALSE]

\* checkPluginSections: the first section that is dirty and visible, 0 when
\* there is none (or no sections yet).
FirstDue(secs, vis) ==
    LET due == {i \in 1..Len(secs) : secs[i].dirty /\ vis[i]}
    IN  IF due = {} THEN 0 ELSE CHOOSE i \in due : \A j \in due : i <= j

\* checkPluginSections, on the sections secs with the visibility vis.
checkPluginSections(secs, vis, pending) ==
    LET i == FirstDue(secs, vis) IN
    IF i = 0
    THEN /\ sections' = secs
         /\ frames' = pending
         /\ renders' = renders
    ELSE /\ sections' = [secs EXCEPT ![i] = Cleared(secs[i])]
         /\ frames' = pending + 1
         /\ renders' = [renders EXCEPT ![i] = @ + 1]

\* finishBlogPlugins: one dirty section per element, then a check.
finishBlogPlugins ==
    checkPluginSections([i \in Elems |-> [id |-> PluginOf(i), dirty |-> TRUE]],
                        visible, frames)

\* registerBlogPlugin: the script of a plugin has loaded.
registerBlogPlugin(plugin_id) ==
    /\ plugin_id \notin registered
    /\ registered' = registered \cup {plugin_id}
    /\ IF num_loaded # NoEntry /\ num_loaded + 1 = num_plugins
       THEN /\ finishBlogPlugins
            /\ num_loaded' = NoEntry
       ELSE /\ num_loaded' = IF num_loaded = NoEntry THEN NoEntry ELSE num_loaded + 1
            /\ UNCHANGED <<sections, frames, renders>>
    /\ UNCHANGED <<serverVars, curveVars, demoVars, visible>>

\* onScroll: the page has scrolled, other elements are in view.
onScroll(vis) ==
    /\ visible' = vis
    /\ checkPluginSections(sections, vis, frames)
    /\ UNCHANGED <<serverVars, curveVars, demoVars, registered, num_loaded>>

\* handleResize: the window has another size; onResize of the plugins does
\* nothing.
handleResize(vis) ==
    /\ visible' = vis
    /\ checkPluginSections(sections, vis, frames)
    /\ UNCHANGED <<serverVars, curveVars, demoVars, registered, num_loaded>>

\* The callback checkPluginSections handed to requestAnimationFrame runs.
animationFrame ==
    /\ frames > 0
    /\ checkPluginSections(sections, visible, frames - 1)
    /\ UNCHANGED <<serverVars, curveVars, demoVars, registered, num_loaded, visible>>

NextPlugins ==
    \/ \E plugin_id \in PluginIds : registerBlogPlugin(plugin_id)
    \/ \E vis \in [Elems -> BOOLEAN] : onScroll(vis)
    \/ \E vis \in [Elems -> BOOLEAN] : handleResize(vis)
    \/ animationFrame

\* The article is shown and loadBlogPlugins has run: no section yet, the
\* scripts of the plugins are loading.
InitPlugins ==
    /\ ServerIdle
    /\ curve = <<>>
    /\ applied = <<>>
    /\ data = [image |-> <<>>, filters |-> <<>>]
    /\ demo = "none"
    /\ canvas = <<>>
    /\ filters = <<>>
    /\ registered = {}
    /\ num_loaded = 0
    /\ sections = <<>>
    /\ visible \in [Elems -> BOOLEAN]
    /\ frames = 0
    /\ renders = [i \in Elems |-> 0]

SpecPlugins == InitPlugins /\ [][NextPlugins]_vars

\* ================================================================== claims
Resident(c, key) == IndexOf(c, key) # 0

\* Request r is answered in this step.
Answered(r) == reqs[r].pc \notin {"idle", "done"} /\ reqs'[r].pc = "done"

\* C1 (as stated): after every set call the resident bytes are at most the
\* byte budget and the resident entries at most the item budget.
C1_Original == Bytes(cache) <= maxBytes /\ Count(cache) <= maxItems

\* C1 (amended): the entry count never exceeds the item budget, and the
\* resident bytes never exceed the byte budget unless the only resident entry
\* is a value that alone exceeds the byte budget.
C1_CacheBounds ==
    /\ Count(cache) <= maxItems
    /\ \/ Bytes(cache) <= maxBytes
       \/ Len(cache) = 1 /\ cache[1].value.bytes > maxBytes

\* C1 witness: outside debug mode, where preload left its texts in the cache,
\* a set call of an oversized value evicted every other entry.
C1_Witness ==
    /\ ~debug /\ pc = "serving"
    /\ Len(cache) = 1 /\ cache[1].value.bytes > maxBytes

\* C2: outside debug mode a failed HTTP GET leaves the cache as it was (no
\* raw and no rendered entry is created), and the page handlers answer
\* "404 Not Found" without HTML.
C2_FetchFailure ==
    [][~debug =>
        \A r \in Reqs : FetchErr(r) =>
            /\ cache' = cache
            /\ reqs'[r].status = "404 Not Found"
            /\ reqs'[r].body = "message"
            /\ reqs'[r].html = NoValue]_vars

\* C2 witness: outside debug mode a request whose GET failed was answered
\* 404 while the cache holds nothing under its URL.
C2_Witness ==
    \E r \in Reqs :
        /\ ~debug /\ reqs[r].pc = "done" /\ reqs[r].gets = 1
        /\ reqs[r].status = "404 Not Found"
        /\ ~Resident(cache, RawKey(reqs[r].url))
        /\ ~Resident(cache, CacheId(reqs[r].url))

\* C3 (as stated): in debug mode, for every URL, a get_cached_html call
\* returns HTML rendered from content the source held during the call (its
\* content at the start of the call or at its completion), never from older
\* content.
C3_Original ==
    [][debug =>
        \A r \in Reqs : (Answered(r) /\ reqs'[r].status = "200 OK") =>
            reqs'[r].html \in {Render(reqs[r].src0), Render(upstream[reqs[r].url])}]_vars

\* C3 (amended): in debug mode, for every blog article URL, a
\* get_cached_html call returns HTML rendered from the content the local
\* file holds when the read completes.
C3_DebugBlogFresh ==
    [][debug =>
        \A r \in Reqs : (Answered(r) /\ reqs'[r].status = "200 OK"
                            /\ MatchesBlog(reqs[r].url)) =>
            /\ reqs'[r].html = Render(upstream[reqs[r].url])
            /\ reqs[r].pc = "reading"
            /\ cache' = cache]_vars

\* C3 witness: in debug mode two consecutive calls for one blog URL, the
\* content changed in between, and the second returned the new content.
C3_Witness ==
    /\ debug
    /\ reqs[1].pc = "done" /\ reqs[2].pc = "done"
    /\ reqs[1].url = reqs[2].url /\ MatchesBlog(reqs[1].url)
    /\ reqs[1].html = Render(Text(1))
    /\ reqs[2].html = Render(Text(2))

\* C4: when a preload fetch fails, startup's callback has been invoked with
\* an error; it is invoked at most once and never with success once a fetch
\* failed, whatever completes later.
C4_FailFast ==
    /\ [](Len(calls) <= 1)
    /\ [][\A slug \in Slugs : PreloadFetchErr(slug) => calls' = <<"err">>]_vars
    /\ [][calls = <<"err">> => calls' = <<"err">>]_vars

\* C4 witness: the error was reported while other fetches were in flight.
C4_Witness == calls = <<"err">> /\ inflight # {} /\ pc = "aborted"

WellFormed(a) ==
    /\ Field(a, "title") # Undef /\ Field(a, "summary") # Undef
    /\ Field(a, "author") # Undef
    /\ a.date # NaN /\ a.tags # Undef

\* C5 (as stated): a fetched text lacking a required front-matter field makes
\* preload report an error through its callback (the process neither dies nor
\* reports success), and no article with an undefined or NaN field is stored.
C5_MalformedIsFatal ==
    /\ pc # "crashed"
    /\ \A s \in Slugs : articles[s] # NoArticle => WellFormed(articles[s])

\* C6 (as stated): outside debug mode, after a rendered-cache miss whose fetch
\* succeeds, the cache holds the raw text under url and its rendering under
\* "RENDERED:" + url.
C6_Original ==
    [][~debug =>
        \A r \in Reqs : FetchOk(r) =>
            LET u == reqs[r].url IN
            /\ Has(cache', RawKey(u)) /\ Value(cache', RawKey(u)) = upstream[u]
            /\ Has(cache', <<"RENDERED:", u>>)
            /\ Value(cache', <<"RENDERED:", u>>) = Render(upstream[u])
            /\ reqs'[r].html = Render(upstream[u])]_vars

\* C6 (amended): outside debug mode, after a rendered-cache miss whose fetch
\* succeeds with a text that fits the byte budget together with its HTML,
\* the cache holds the raw text under url and the HTML under
\* "MARKED:" + url, the HTML being the rendering of exactly that text, and it
\* is the HTML the caller receives.
C6_BothStored ==
    [][~debug =>
        \A r \in Reqs : (FetchOk(r)
                /\ upstream[reqs[r].url].bytes + Render(upstream[reqs[r].url]).bytes
                      <= maxBytes) =>
            LET u == reqs[r].url IN
            /\ Has(cache', RawKey(u)) /\ Value(cache', RawKey(u)) = upstream[u]
            /\ Has(cache', CacheId(u))
            /\ Value(cache', CacheId(u)) = Render(Value(cache', RawKey(u)))
            /\ reqs'[r].html = Value(cache', CacheId(u))
            /\ reqs'[r].status = "200 OK"]_vars

\* C6 witness: outside debug mode a request was answered from its own GET and
\* both entries are resident.
C6_Witness ==
    \E r \in Reqs :
        /\ ~debug /\ reqs[r].pc = "done" /\ reqs[r].gets = 1
        /\ reqs[r].status = "200 OK"
        /\ Has(cache, RawKey(reqs[r].url))
        /\ Has(cache, CacheId(reqs[r].url))
        /\ Value(cache, CacheId(reqs[r].url)) = reqs[r].html

\* A handler calls get_cached_html(u) for request r in this step.
Calls(r, u) == reqs[r].pc = "idle" /\ reqs'[r].pc # "idle" /\ reqs'[r].url = u

\* C7: when an unexpired rendered entry exists for the URL, get_cached_html
\* takes its value without an HTTP GET or file read, whatever the state of the
\* raw entry, and the caller receives that value, not a new rendering.
C7_RenderedHit ==
    [][\A r \in Reqs :
        /\ \A u \in Urls : (Calls(r, u) /\ Has(cache, CacheId(u))) =>
              /\ reqs'[r].pc = "imm_html"
              /\ reqs'[r].val = Value(cache, CacheId(u))
              /\ reqs'[r].gets = 0
        /\ (reqs[r].pc = "imm_html" /\ reqs'[r].pc # "imm_html") =>
              /\ reqs'[r].pc = "done" /\ reqs'[r].status = "200 OK"
              /\ reqs'[r].html = reqs[r].val
              /\ reqs'[r].gets = 0
              /\ cache' = cache]_vars

\* C7 witness: a call was served from the rendered entry while the raw entry
\* of the same URL is expired or evicted.
C7_Witness ==
    \E r \in Reqs :
        /\ reqs[r].pc = "imm_html"
        /\ Has(cache, CacheId(reqs[r].url))
        /\ ~Has(cache, RawKey(reqs[r].url))

\* The value request r stores under key in this step, NoValue when none.
StoredBy(r, key) ==
    IF Answered(r) /\ reqs'[r].status = "200 OK"
    THEN IF key = RawKey(reqs[r].url) /\ reqs[r].pc = "fetching"
         THEN upstream[reqs[r].url]
         ELSE IF key = CacheId(reqs[r].url) /\ ~debug
                    /\ reqs[r].pc \in {"fetching", "imm_text"}
         THEN reqs'[r].html
         ELSE NoValue
    ELSE NoValue

\* C8: there is no in-flight de-duplication, each caller receives the
\* rendering of the text its own GET returned, the cache never holds two
\* entries under one key, and an entry's value is that of the last store
\* under its key: the request answered in a step leaves the values it stores
\* under its keys, and no other step changes the value under a key.
C8_LastWriteWins ==
    /\ [](\A i, j \in 1..Len(cache) : cache[i].key = cache[j].key => i = j)
    /\ [][\A r \in Reqs : FetchOk(r) =>
            /\ reqs[r].gets = 1
            /\ reqs'[r].html = Render(upstream[reqs[r].url])]_vars
    /\ [][\A r \in Reqs : Answered(r) =>
            \A key \in {RawKey(reqs[r].url), CacheId(reqs[r].url)} :
                (StoredBy(r, key) # NoValue /\ Resident(cache', key)) =>
                    Value(cache', key) = StoredBy(r, key)]_vars
    /\ [][\A i \in 1..Len(cache') :
            \/ i <= Len(cache) /\ cache[i].key = cache'[i].key /\ cache[i].value = cache'[i].value
            \/ \E j \in 1..Len(cache) :
                  cache[j].key = cache'[i].key /\ cache[j].value = cache'[i].value
            \/ \E r \in Reqs : StoredBy(r, cache'[i].key) = cache'[i].value]_vars

\* C8 witness: two overlapping calls for one uncached URL both issued a GET
\* and got different results, and the cache holds the later one.
C8_Witness ==
    /\ ~debug
    /\ reqs[1].pc = "done" /\ reqs[2].pc = "done"
    /\ reqs[1].url = reqs[2].url
    /\ reqs[1].gets = 1 /\ reqs[2].gets = 1
    /\ reqs[1].html = Render(Text(1)) /\ reqs[2].html = Render(Text(2))
    /\ Value(cache, RawKey(reqs[2].url)) = Text(2)
    /\ Value(cache, CacheId(reqs[2].url)) = Render(Text(2))

\* C9: at most PreloadLimit preload fetches are in flight, and outside
\* startup a fetch is started only in a step in which one in flight completes.
C9_BoundedFanOut ==
    /\ [](Cardinality(inflight) <= PreloadLimit /\ running <= PreloadLimit)
    /\ [][(inflight' \ inflight # {}) =>
            \/ pc = "init"
            \/ /\ \E s \in inflight : s \notin inflight'
               /\ Cardinality(inflight) = PreloadLimit]_vars

\* C9 witness: more slugs are configured than the limit, and the slug that
\* waited has been started after a completion, the limit being reached again.
C9_Witness ==
    /\ pc = "preload" /\ NumArticles > PreloadLimit
    /\ Cardinality(inflight) = PreloadLimit
    /\ nextIdx > PreloadLimit + 1
    /\ configArticles[PreloadLimit + 1] \in inflight

\* C10: when startup's callback has been invoked with success, the article
\* index holds an article for every slug of config.articles, parsed from a
\* text fetched for that slug.
C10_IndexComplete ==
    calls = <<"ok">> =>
        /\ DOMAIN articles = Slugs
        /\ \A s \in Slugs : \E text \in Texts : articles[s] = Article(s, text)
        /\ inflight = {}

\* C10 witness: startup reported success.
C10_Witness == calls = <<"ok">> /\ pc = "serving"

\* The item at position i of the cache is evicted in this step.
Gone(i) == ~Resident(cache', cache[i].key)

\* A key the cache did not hold is set in this step.
SetsNewKey == \E j \in 1..Len(cache') : ~Resident(cache, cache'[j].key)

\* C11 (as stated): when a new key is set, no entry is evicted while an
\* unexpired entry accessed less recently than it stays resident.
C11_Original ==
    [][SetsNewKey =>
        \A i, j \in 1..Len(cache) :
            (i < j /\ Gone(i) /\ ~Expired(cache[j])) => Gone(j)]_vars

\* C11 (amended): when a new key is set, expired entries are evicted before
\* unexpired ones, and within each group the least recently accessed first:
\* an unexpired entry is evicted only when every entry that stays is unexpired
\* and was accessed more recently, an expired entry only when every expired
\* entry that stays was accessed more recently.
C11_LruOrder ==
    [][SetsNewKey =>
        \A i, j \in 1..Len(cache) :
            (Gone(i) /\ ~Gone(j)) =>
                IF Expired(cache[i])
                THEN Expired(cache[j]) => j < i
                ELSE ~Expired(cache[j]) /\ j < i]_vars

\* C11 witness: the cache is at its item capacity, an expired entry was
\* accessed more recently than an unexpired one, and a key is still absent.
C11_Witness ==
    /\ Len(cache) = maxItems
    /\ \E i, j \in 1..Len(cache) : i < j /\ Expired(cache[i]) /\ ~Expired(cache[j])
    /\ \E url \in ReqUrls : ~Resident(cache, CacheId(url))

\* The time the entry under key has left in cache c, -1 when there is none.
Ttl(c, key) == IF IndexOf(c, key) = 0 THEN -1 ELSE c[IndexOf(c, key)].ttl

\* C12: an entry is stamped with maxAge when it is set and its time runs
\* down with the clock only (a lookup does not renew it); once it has run out
\* has(key) is false although the entry is still resident, and then
\* get_cached_html does not answer from the rendered entry and
\* get_cached_url issues an HTTP GET instead of answering from the raw entry.
C12_ExpiredIsMiss ==
    /\ [](\A i \in 1..Len(cache) :
            /\ cache[i].ttl \in 0..maxAge
            /\ Has(cache, cache[i].key) <=> cache[i].ttl > 0)
    /\ [][\A i \in 1..Len(cache') :
            LET k == cache'[i].key IN
            \/ i <= Len(cache) /\ cache[i].key = k /\ cache[i].ttl = cache'[i].ttl
            \/ /\ reqs' = reqs /\ Len(cache') = Len(cache)
               /\ cache[i].key = k /\ cache'[i].ttl = cache[i].ttl - 1
            \/ cache'[i].ttl = Ttl(cache, k)
            \/ cache'[i].ttl = maxAge /\ \E r \in Reqs : StoredBy(r, k) # NoValue]_vars
    /\ [][\A r \in Reqs :
            LET u == reqs'[r].url IN
            (reqs[r].pc = "idle" /\ reqs'[r].pc \notin {"idle", "done"}
                    /\ ~UseLocalFile(debug, u)) =>
                /\ ~Has(cache, CacheId(u)) => reqs'[r].pc # "imm_html"
                /\ (~Has(cache, CacheId(u)) /\ ~Has(cache, RawKey(u))) =>
                        reqs'[r].pc = "fetching" /\ reqs'[r].gets = 1]_vars

\* C12 witness: an HTTP GET is in flight for a URL whose raw entry is still
\* resident but has expired.
C12_Witness ==
    \E r \in Reqs :
        /\ reqs[r].pc = "fetching" /\ reqs[r].gets = 1
        /\ Resident(cache, RawKey(reqs[r].url))
        /\ ~Has(cache, RawKey(reqs[r].url))

\* C13: a get_cached_url call issues at most one HTTP GET; when the GET fails
\* the call ends with the error (the handler answers 404), and in that step
\* no request starts or repeats a GET: a new one is issued only when a
\* handler calls again.
C13_NoRetry ==
    /\ [](\A r \in Reqs : reqs[r].gets <= 1)
    /\ [][\A r \in Reqs : FetchErr(r) =>
            /\ reqs'[r].pc = "done" /\ reqs'[r].gets = 1
            /\ reqs'[r].status = "404 Not Found"
            /\ \A q \in Reqs \ {r} : reqs'[q] = reqs[q]]_vars
    /\ [][\A r \in Reqs : reqs'[r].gets > reqs[r].gets =>
            \E u \in Urls : Calls(r, u)]_vars

\* C13 witness: a call ended with the error of its only GET and no GET is in
\* flight.
C13_Witness ==
    \E r \in Reqs :
        /\ reqs[r].pc = "done" /\ reqs[r].gets = 1
        /\ reqs[r].status = "404 Not Found"
        /\ \A q \in Reqs : reqs[q].pc # "fetching"

\* C14: in debug mode the cache never holds an entry under a rendered-HTML
\* key, and no get_cached_html call is answered from the rendered cache: its
\* result is rendered in the call.
C14_DebugNoRendered ==
    debug =>
        /\ \A i \in 1..Len(cache) : cache[i].key[1] # "MARKED:"
        /\ \A r \in Reqs : reqs[r].pc # "imm_html"

\* C14 witness: in debug mode a call was answered with HTML rendered from
\* the raw text the cache holds for its URL.
C14_Witness ==
    \E r \in Reqs :
        /\ debug /\ reqs[r].pc = "done" /\ reqs[r].status = "200 OK"
        /\ reqs[r].gets = 0 /\ ~MatchesBlog(reqs[r].url)
        /\ Has(cache, RawKey(reqs[r].url))
        /\ reqs[r].html = Render(Value(cache, RawKey(reqs[r].url)))

\* C15: in debug mode a call for a blog article URL reads the local file,
\* issues no HTTP GET and leaves the cache as it is, from the call to its
\* answer; a failed read is passed on as the error (the handler answers 404).
C15_DebugLocalFile ==
    [][debug =>
        \A r \in Reqs :
            /\ \A u \in BlogUrls : Calls(r, u) =>
                  /\ reqs'[r].pc = "reading" /\ reqs'[r].gets = 0
                  /\ cache' = cache
            /\ (Answered(r) /\ reqs[r].url \in BlogUrls) =>
                  /\ reqs[r].pc = "reading" /\ reqs'[r].gets = 0
                  /\ cache' = cache
                  /\ \/ reqs'[r].status = "200 OK"
                        /\ reqs'[r].html = Render(upstream[reqs[r].url])
                     \/ reqs'[r].status = "404 Not Found"
                        /\ reqs'[r].html = NoValue]_vars

\* C15 witness: in debug mode the read of a blog article's local file failed
\* and the call was answered 404 without any GET.
C15_Witness ==
    \E r \in Reqs :
        /\ debug /\ reqs[r].pc = "done" /\ reqs[r].url \in BlogUrls
        /\ reqs[r].gets = 0 /\ reqs[r].status = "404 Not Found"

\* C16: once the server serves, no step changes the article index.
C16_IndexFrozen == [][pc = "serving" => articles' = articles]_vars

\* C16 witness: a blog article was fetched again and rendered from changed
\* content while the index still holds the article parsed at preload.
C16_Witness ==
    \E r \in Reqs :
        /\ reqs[r].pc = "done" /\ reqs[r].url = BlogUrl(configArticles[1])
        /\ reqs[r].html = Render(Text(2))
        /\ articles[configArticles[1]] = Article(configArticles[1], Text(1))

\* C17 (as stated): every entry of config.pages equals its configured value.
C17_PagesUnchanged == pages = configPages

\* C18: a set whose value alone exceeds the byte budget stores the value:
\* afterwards has(key) is true, the value is the one set, and the cache holds
\* that entry and nothing else, whatever it held before.
C18_OversizedStored ==
    [][\A url \in ReqUrls, text \in CacheTexts :
        /\ (StoreText(url, text) /\ text.bytes > maxBytes) =>
              /\ Has(cache', RawKey(url)) /\ Value(cache', RawKey(url)) = text
              /\ cache' = <<[key |-> RawKey(url), value |-> text, ttl |-> maxAge]>>
        /\ (StoreHtml(url, text) /\ Render(text).bytes > maxBytes) =>
              /\ Has(cache', CacheId(url)) /\ Value(cache', CacheId(url)) = Render(text)
              /\ cache' = <<[key |-> CacheId(url), value |-> Render(text),
                             ttl |-> maxAge]>>]_vars

\* C18 witness: the oversized text is the only entry of the cache, unexpired.
C18_Witness ==
    \E url \in ReqUrls :
        /\ Has(cache, RawKey(url)) /\ Value(cache, RawKey(url)) = Text(7)
        /\ Len(cache) = 1 /\ Bytes(cache) > maxBytes

\* C19: a rendering of a blockquote content returns what the first rendering
\* of the same content returned, whatever was rendered in between and
\* whatever RegExp.$1 the calls in between left.
C19_RenderPure ==
    [][(RenderQuote(probe) /\ firstOut # NoOut) => lastOut' = firstOut]_vars

\* C19 witness: an admonition has been rendered twice and in between an
\* admonition with another keyword, which RegExp.$1 then held.
C19_Witness ==
    /\ probeRuns = 2 /\ firstOut.kind = "blocknote"
    /\ lastOut.kind = "blocknote" /\ lastOut.type # firstOut.type

\* The content a blockquote is rendered with: the html without the
\* surrounding whitespace and the wrapping paragraph.
Content(html) == ReplaceP(Trim(html))

Keywords == {"note", "tip", "important", "warning", "caution"}

\* C20 (as stated): a content starting with [!KEYWORD], KEYWORD one of the
\* five in any letter case, is rendered as an admonition with the capitalized
\* keyword as title, the keyword's icon, and the content without the marker
\* and the whitespace after it; every other content is rendered as an
\* ordinary blockquote, unchanged.
C20_Admonition ==
    [][\A html \in Quotes : RenderQuote(html) =>
        LET h == Content(html) IN
        IF MatchesMarker(h) /\ ToLowerCase(h[2]) \in Keywords
        THEN /\ lastOut'.kind = "blocknote"
             /\ lastOut'.title = Ucfirst(ToLowerCase(h[2]))
             /\ lastOut'.icon = Icons(ToLowerCase(h[2]))
             /\ lastOut'.icon # Undefined
             /\ lastOut'.body = ReplaceMarker(h)
        ELSE lastOut' = Blockquote(h)]_vars

\* The comment lines of a text: "<!--" at index i, the next "-->" at index e,
\* and between them a key, ":" and a value that has no line break.
CommentLines(t) ==
    {ln \in (1..Len(t)) \X (1..Len(t)) :
        /\ ln[1] < ln[2] /\ t[ln[1]] = "<!--" /\ t[ln[2]] = "-->"
        /\ \A q \in (ln[1] + 1)..(ln[2] - 1) : t[q] \notin {"<!--", "-->"}
        /\ LET inner == TrimLeft(SubSeq(t, ln[1] + 1, ln[2] - 1)) IN
            /\ Len(inner) >= 3 /\ IsWordToken(inner[1]) /\ inner[2] = ":"
            /\ Trim(SubSeq(inner, 3, Len(inner))) # <<>>
            /\ \A q \in 1..Len(Trim(SubSeq(inner, 3, Len(inner)))) :
                    Trim(SubSeq(inner, 3, Len(inner)))[q] # "\n"}

LineKey(t, ln) == ToLowerCase(TrimLeft(SubSeq(t, ln[1] + 1, ln[2] - 1))[1])

\* The value of a comment line, trimmed.
LineValue(t, ln) ==
    LET inner == TrimLeft(SubSeq(t, ln[1] + 1, ln[2] - 1)) IN
    Trim(SubSeq(inner, 3, Len(inner)))

\* The tag lists the texts write, as the lists they stand for.
TagList(v) ==
    CASE v = <<"A", ",", " ", "B">> -> <<"array", <<"A">>, <<"B">>>>
      [] v = <<"A", ",", "B", ",", " ", " ", "C">> -> <<"array", <<"A">>, <<"B">>, <<"C">>>>
      [] v = <<"A">> -> <<"array", <<"A">>>>
      [] v = <<"Web", " ", "Dev", ",", " ", "Linux">> ->
            <<"array", <<"Web", " ", "Dev">>, <<"Linux">>>>
      [] OTHER -> <<"array">>

\* What the field of a comment line is to hold: the epoch of local midnight
\* for a date, the list for tags, else the trimmed value as a string.
FieldOf(t, ln) ==
    LET k == LineKey(t, ln)
        v == LineValue(t, ln)
    IN  IF k = "date" /\ Len(v) = 1 /\ v[1] \in Dates
        THEN <<"number", "epoch", v[1], "00:00:00">>
        ELSE IF k = "tags" THEN TagList(v)
        ELSE Str(v)

\* The text the article of slug s was parsed from (the content does not
\* change while it is preloaded).
Fetched(s) == Source(upstream[BlogUrl(s)].id)

\* The comment line is about a date that is not written YYYY/MM/DD.
OddDate(t, ln) == LineKey(t, ln) = "date" /\ FieldOf(t, ln)[1] # "number"

\* C21 (as stated): the parsed article has, for each comment line, the field
\* of the lower-cased key set to the trimmed value, the date as the epoch of
\* local midnight and the tags as the list in source order.
C21_Original ==
    \A s \in Slugs :
        articles[s] # NoArticle =>
            \A ln \in CommentLines(Fetched(s)) :
                ~OddDate(Fetched(s), ln) =>
                    Field(articles[s], LineKey(Fetched(s), ln)) = FieldOf(Fetched(s), ln)

\* No later comment line of the text has the key of ln.
LastOfKey(t, ln) ==
    \A other \in CommentLines(t) :
        LineKey(t, other) = LineKey(t, ln) => other[1] <= ln[1]

\* C21: the parsed article has, for each comment line that is the last one of
\* its lower-cased key, the field of that key set to the trimmed value (a
\* later line of the same key replaces an earlier one); date is the epoch of
\* local midnight of the YYYY/MM/DD value and tags is the list in source
\* order.
C21_FrontMatter ==
    \A s \in Slugs :
        articles[s] # NoArticle =>
            \A ln \in CommentLines(Fetched(s)) :
                (LastOfKey(Fetched(s), ln) /\ ~OddDate(Fetched(s), ln)) =>
                    Field(articles[s], LineKey(Fetched(s), ln)) = FieldOf(Fetched(s), ln)

\* C21 witness: an article was parsed from a text with two Title lines and
\* has the title of the second.
C21_Witness ==
    /\ upstream[BlogUrl(configArticles[1])] = Text(22)
    /\ Field(articles[configArticles[1]], "title") = Str(<<"Final">>)
    /\ \E l1, l2 \in CommentLines(Source(22)) :
          l1 # l2 /\ LineKey(Source(22), l1) = LineKey(Source(22), l2)

\* C27 (as stated): for every slug s in the article index after preload,
\* articles[s].slug equals s and articles[s].words is the numeric word count
\* computed from the fetched text, whatever comment lines the text contains.
C27_SlugAndWords ==
    \A s \in Slugs :
        articles[s] # NoArticle =>
            /\ articles[s].slug = Str(<<s>>)
            /\ articles[s].words = Num(WordCount(StripFences(StripTags(Fetched(s)))))

\* C22 (as stated): posterize with levels = N, 1 <= N <= 128, applied to a
\* freshly reset curve leaves on each selected channel a curve with exactly N
\* distinct output levels, every value an integer in 0..255.
C22_PosterizeLevels ==
    \A N \in 1..128, channels \in ChannelStrings :
        applied = <<Call("posterize", N, channels)>> =>
            \A ch \in Selected(channels) :
                /\ Cardinality({curve[ch][idx] : idx \in Indexes}) = N
                /\ \A idx \in Indexes : curve[ch][idx] \in 0..255

\* C30: after reset and any sequence of invert, solarize, threshold,
\* posterize and temperature calls with numbers as arguments, each of the four
\* channel curves has exactly the indexes 0..255 and every value is an integer
\* in 0..255, so that a further apply or render reads inside the curve.
C30_CurveInRange ==
    \A ch \in ChannelNames :
        /\ DOMAIN curve[ch] = Indexes
        /\ \A idx \in Indexes :
              /\ curve[ch][idx] \in 0..255
              /\ At(curve[ch], curve[ch][idx]) # NoEntry

\* C30 witness: a posterize whose last step is cut at 255 has been followed
\* by a temperature call given an amount beyond the limit.
C30_Witness ==
    /\ Len(applied) = 2
    /\ applied[1].op = "posterize" /\ applied[1].arg = 4
    /\ applied[2].op = "temperature" /\ applied[2].arg = 0 - 300
    /\ StairUnclamped(4)[255] = 256
    /\ curve["blue"][255] = 255

\* C29 (as stated): CurveDemo.update is idempotent: called with unchanged
\* control settings on the state a previous update left, it leaves the same
\* curve tables and the same canvas pixels.
C29_UpdateIdempotent == [][update => (curve' = curve /\ canvas' = canvas)]_vars

\* C23: each blog plugin section is rendered at most once: a step renders at
\* most one section, only one that was dirty and is visible when checked, and
\* only one that had not been rendered before; its dirty flag is then cleared.
C23_RenderOnce ==
    [][\A i \in Elems :
          renders'[i] # renders[i] =>
              /\ renders[i] = 0 /\ renders'[i] = 1
              /\ sections = <<>> \/ sections[i].dirty
              /\ visible'[i]
              /\ ~sections'[i].dirty
              /\ \A j \in Elems \ {i} : renders'[j] = renders[j]]_vars

\* C23 witness: every section has been rendered once, all are in view and all
\* animation-frame checks have run.
C23_Witness ==
    /\ sections # <<>>
    /\ \A i \in Elems : renders[i] = 1 /\ visible[i] /\ ~sections[i].dirty
    /\ frames = 0

\* C25 (as stated): a request for P?Q is routed to the same handler with the
\* same slug, id and path, and answered the same, as a request for P alone.
C25_QueryIgnored ==
    [][\A r \in Reqs, path \in ReqPaths :
          handler(r, path \o Query) => handler(r, path)]_vars

\* C26 (as stated): handle_blog for a slug that is not in the article index,
\* and handle_page or handle_doc for an id that is not in config.pages, answer
\* 404 Not Found at once: no fetch is started and the cache is as it was.
C26_NotFoundAtOnce ==
    [][\A r \in Reqs, id \in IdTokens :
          (\/ handle_blog(r, id) /\ (id \notin Slugs \/ articles[id] = NoArticle)
           \/ handle_page(r, id) /\ id \notin PageIds
           \/ \E path \in DocPaths : handle_doc(r, id, path) /\ id \notin PageIds)
          => /\ reqs'[r].pc = "done"
             /\ reqs'[r].status = "404 Not Found"
             /\ reqs'[r].gets = 0
             /\ cache' = cache]_vars

\* C24: every request passed to handler is answered exactly once: its callback
\* is never invoked twice, and when every fetch, file read and setImmediate
\* started for it completes, it is invoked.
C24_AnsweredOnce ==
    /\ [](\A r \in Reqs : reqs[r].answers <= 1
                          /\ (reqs[r].pc = "done" <=> reqs[r].answers = 1))
    /\ \A r \in Reqs :
          (reqs[r].pc \in {"fetching", "reading", "imm_text", "imm_html"})
              ~> (reqs[r].pc = "done" /\ reqs[r].answers = 1)

\* C24 witness: a request was answered 404 after its fetch failed while the
\* other request has been answered 200 OK with a page.
C24_Witness ==
    /\ reqs[1].pc = "done" /\ reqs[1].gets = 1 /\ reqs[1].status = "404 Not Found"
    /\ reqs[1].answers = 1
    /\ reqs[2].pc = "done" /\ reqs[2].status = "200 OK" /\ reqs[2].body = "page"
    /\ reqs[2].answers = 1

\* C28: outside debug mode, the HTML a request is answered with is the
\* rendering of a text that an HTTP GET of the requested URL returned at most
\* 2 x TTL before the answer.
C28_AtMostTwoTtl ==
    [][\A r \in Reqs :
          (reqs[r].pc # "done" /\ reqs'[r].pc = "done" /\ reqs'[r].html # NoValue) =>
              /\ reqs'[r].html.kind = "html"
              /\ StampUrl(reqs'[r].html) = reqs'[r].url
              /\ StampTime(reqs'[r].html) <= edits'
              /\ edits' - StampTime(reqs'[r].html) <= 2 * maxAge]_vars

\* C28 witness: a request has been answered from the rendered entry with HTML
\* whose text was fetched a whole TTL or more before, which the raw entry
\* alone could not have served.
C28_Witness ==
    \E r \in Reqs :
        /\ reqs[r].pc = "done" /\ reqs[r].html # NoValue /\ reqs[r].gets = 0
        /\ edits - StampTime(reqs[r].html) >= maxAge

====
